---- MODULE Spec2Model ----
(***************************************************************************)
(* Model of the ParallelOrchestrator of src/core/orchestrator.py: the      *)
(* wave scheduler (calculate_waves) and the executor (execute_wave,        *)
(* execute_task, _emit_event, on_event); of the EventBus and EventMetrics  *)
(* of src/core/events.py; and of the ContextManager of                     *)
(* src/core/context.py.                                                    *)
(***************************************************************************)
EXTENDS Integers, Sequences, FiniteSets, TLC

\* ---------------------------------------------------------------- bounds
\* Longest task list handed to calculate_waves.
MaxTasks == 3
\* Most dependency ids one task carries.
MaxDeps == 2
\* Longest task list handed to execute_wave.
MaxExecTasks == 3
\* Longest task list handed to execute_wave more than once.
MaxRepeatTasks == 2
\* Longest task list handed to execute_wave with a hooks runner set.
MaxHookTasks == 2
\* Most observers registered with on_event.
MaxHandlers == 1
\* Most execute_wave calls made on the same task objects.
MaxCalls == 2
\* Most handlers subscribed to one event type.
MaxFanout == 2
\* Most emit calls.
MaxEmits == 3
\* Greatest limit handed to get_events_by_type and get_events_by_source.
MaxLimit == 2
\* Most events handed to EventMetrics.record.
MaxRecords == 11
\* Most calls on the context store.
MaxStoreOps == 4
\* Most calls the role handlers of one wave make on the store.
MaxHandlerCalls == 3
\* len(json.dumps(value)) of the short, the long and the huge value stored.
ShortChars == 3
LongChars == 30
HugeChars == 60
\* max_tokens of the ContextManager.
Budget == 16

VARIABLES
    tasks,           \* the task list: id, role, dependencies of each Task
    status,          \* Task.status of each task
    result,          \* Task.result of each task
    error,           \* Task.error of each task
    event_handlers,  \* ParallelOrchestrator.event_handlers
    hooks_runner,    \* ParallelOrchestrator.hooks_runner
    pc,              \* where the caller of calculate_waves / execute_wave is
    waves,           \* the local `waves` of execute_wave (ids of each wave)
    wave_i,          \* the index of the wave being gathered (i + 1 in the code)
    co,              \* the execute_task coroutine of each task of that wave
    all_results,     \* the local `all_results` of execute_wave
    exc,             \* the exception that left the call, if any
    events,          \* the events built by _emit_event during the current call
    calls,           \* execute_wave calls made so far
    synthesis,       \* what the last synthesize_results returned
    \* src/core/events.py
    handlers,        \* EventBus.handlers: the handlers subscribed to each type
    event_log,       \* EventBus.event_log
    counts,          \* EventMetrics.counts
    errors,          \* EventMetrics.errors
    emit_co,         \* where each caller of EventBus.emit is
    fanout,          \* the _safe_handle coroutines gathered by each caller's emit
    emit_calls,      \* the events handed to emit so far, in call order
    called_with,     \* the type and the handlers of each caller's last emit
    bus_ret,         \* what the last call of the bus returned
    \* src/core/context.py
    max_tokens,      \* ContextManager.max_tokens
    context,         \* ContextManager.context: the entry of each key
    key_order,       \* the insertion order of the keys of that dict
    now,             \* the clock read by datetime.now()
    exported,        \* the payload the last export_context returned
    store_ret,       \* what the last call on the store returned
    store_ops,       \* calls made on the store so far
    call             \* the call on the store each role handler is in

orch_vars == <<tasks, status, result, error, event_handlers, hooks_runner, pc,
               waves, wave_i, co, all_results, exc, events, calls, synthesis>>

bus_vars == <<handlers, event_log, counts, errors, emit_co, fanout,
              emit_calls, called_with, bus_ret>>

store_vars == <<max_tokens, context, key_order, now, exported, store_ret,
                store_ops, call>>

vars == <<orch_vars, bus_vars, store_vars>>

\* ============================================================= event bus
\* src/core/events.py.  Lines 13-35: the values of the enumeration EventType.
EventType ==
    {"task.created", "task.started", "task.completed", "task.failed",
     "wave.started", "wave.completed", "handoff.initiated",
     "review.requested", "approval.given", "gate.passed", "gate.failed",
     "system.token_usage_high", "system.context_compressed"}

\* The types the callers of the model emit and subscribe to: one without a
\* default handler and one that EventBus.__init__ subscribes to.
EmitTypes == {"task.completed", "task.failed"}

\* The callers of emit: the component that awaits emit_event, which names
\* itself as the source of its events (line 42).
Callers == {"orchestrator"}

SourceOf(c) == c

\* Lines 65-66: the handlers EventBus.__init__ subscribes.
DefaultHandlers == {"_log_failure", "_log_gate_failure"}

\* The callables the callers subscribe, told apart by the order in which
\* they were first subscribed.
Callable(n) == "handler_" \o ToString(n)

\* The callables subscribed so far, and the next one.
SubscribedCallables ==
    UNION {{handlers[t][k] : k \in 1..Len(handlers[t])} : t \in EventType}
        \ DefaultHandlers

Subscribable ==
    SubscribedCallables \cup {Callable(Cardinality(SubscribedCallables) + 1)}

\* Lines 37-44 and 194-202: the Event emit_event constructs; its id is unique.
BusEvent(id, type, source) == [id |-> id, type |-> type, source |-> source]

\* What a call of the bus returned to its caller: subscribe, subscribe_all
\* and emit return None.
Returned(op, value) == [op |-> op, value |-> value]

\* The log after line 82, had the bus kept a rolling log of two events.
LoggedRolling(log, event) ==
    IF Len(log) >= 2 THEN Append(Tail(log), event) ELSE Append(log, event)

\* Line 82: self.event_log.append(event).
Logged(log, event) == Append(log, event)

\* Lines 59-66: the state after EventBus().
EventBusInit ==
    /\ handlers = [t \in EventType |->
                      IF t = "task.failed" THEN <<"_log_failure">>
                      ELSE IF t = "gate.failed" THEN <<"_log_gate_failure">>
                      ELSE <<>>]
    /\ event_log = <<>>
    /\ counts = [t \in {} |-> 0]
    /\ errors = <<>>
    /\ emit_co = [c \in Callers |-> "idle"]
    /\ fanout = [c \in Callers |-> <<>>]
    /\ emit_calls = <<>>
    /\ called_with = [c \in Callers |-> [type |-> "None", registered |-> <<>>]]
    /\ bus_ret = Returned("None", <<>>)

\* dict.get(key, 0) on counts, a dict held as a function on its keys.
CountOf(cs, type) == IF type \in DOMAIN cs THEN cs[type] ELSE 0

\* The same line, had it counted only events that have a subscriber.
record_count_if_subscribed(cs, event) ==
    IF handlers[event.type] # <<>>
    THEN [t \in DOMAIN cs \cup {event.type} |->
             IF t = event.type THEN CountOf(cs, t) + 1 ELSE cs[t]]
    ELSE cs

\* Line 136: counts[event.type.value] = counts.get(event.type.value, 0) + 1.
record_count(cs, event) ==
    [t \in DOMAIN cs \cup {event.type} |->
        IF t = event.type THEN CountOf(cs, t) + 1 ELSE cs[t]]

\* Lines 148-153: task.failed and gate.failed events append an error record.
record_errors(es, event) ==
    IF event.type \in {"task.failed", "gate.failed"}
    THEN Append(es, [event |-> event.id, type |-> event.type])
    ELSE es

\* Lines 68-72: subscribe(event_type, handler).  A type without a key in
\* the dict is a type with the empty list (line 86 reads it with get(.., [])).
Subscribed(hs, event_type, handler) ==
    [hs EXCEPT ![event_type] = Append(@, handler)]

subscribe(event_type, handler) ==
    /\ Len(handlers[event_type]) < MaxFanout
    /\ handlers' = Subscribed(handlers, event_type, handler)
    /\ bus_ret' = Returned("None", <<>>)
    /\ UNCHANGED <<event_log, counts, errors, emit_co, fanout, emit_calls,
                   called_with>>
    /\ UNCHANGED <<orch_vars, store_vars>>

\* Lines 74-77: subscribe_all(handler) subscribes the handler to every type.
subscribe_all(handler) ==
    /\ \A t \in EventType : Len(handlers[t]) < MaxFanout
    /\ handlers' = [t \in EventType |-> Append(handlers[t], handler)]
    /\ bus_ret' = Returned("None", <<>>)
    /\ UNCHANGED <<event_log, counts, errors, emit_co, fanout, emit_calls,
                   called_with>>
    /\ UNCHANGED <<orch_vars, store_vars>>

\* The same line, had it made one coroutine for each distinct handler.
FanoutOfDistinct(registered, event) ==
    LET first == {k \in 1..Len(registered) :
                     \A j \in 1..(k - 1) : registered[j] # registered[k]}
        kept == SelectSeq([k \in 1..Len(registered) |-> k], LAMBDA k : k \in first)
    IN  [k \in 1..Len(kept) |->
            [handler |-> registered[kept[k]], event |-> event.id, st |-> "created"]]

\* Line 91: one _safe_handle coroutine for each handler of the list.
FanoutOf(registered, event) ==
    [k \in 1..Len(registered) |->
        [handler |-> registered[k], event |-> event.id, st |-> "created"]]

\* The positions at which a _safe_handle coroutine has finished: the handler
\* returned, it failed and line 103 logged the failure, or the failure left
\* _safe_handle (line 103 reads handler.__name__, which a partial lacks).
Finished == {"returned", "failed", "escaped"}

\* Lines 79-93: emit(event), up to the await of line 90.  The event is the
\* one emit_event (lines 187-203) constructs for the caller.
emit(c, type) ==
    /\ emit_co[c] = "idle"
    /\ Len(emit_calls) < MaxEmits
    /\ LET event == BusEvent(Len(emit_calls) + 1, type, SourceOf(c))
           registered == handlers[type]
       IN  /\ emit_calls' = Append(emit_calls, event)
           /\ called_with' = [called_with EXCEPT ![c] =
                                 [type |-> type, registered |-> registered]]
           /\ event_log' = Logged(event_log, event)
           /\ counts' = record_count(counts, event)
           /\ errors' = record_errors(errors, event)
           /\ fanout' = [fanout EXCEPT ![c] = FanoutOf(registered, event)]
           /\ emit_co' = [emit_co EXCEPT ![c] =
                             IF registered # <<>> THEN "gathering" ELSE "idle"]
    /\ bus_ret' = Returned("None", <<>>)
    /\ UNCHANGED handlers
    /\ UNCHANGED <<orch_vars, store_vars>>

\* Lines 95-103: what a _safe_handle coroutine does when it first runs.  A
\* default handler (lines 105-111) only logs.  A subscribed callable is a
\* coroutine function, awaited at line 99, which may suspend, or a plain
\* callable, called at line 101, which runs to its end; it returns, or it
\* fails and line 103 logs the failure, or, being a callable without
\* __name__ (a functools.partial), it fails and line 103 fails in turn.
FirstRun(handler) ==
    IF handler \in DefaultHandlers THEN {"returned"}
    ELSE {"awaiting", "returned", "failed", "escaped"}

\* The coroutines gather started run in the order of the list.
safe_handle(c, k) ==
    /\ emit_co[c] = "gathering"
    /\ k \in 1..Len(fanout[c])
    /\ fanout[c][k].st = "created"
    /\ \A j \in 1..(k - 1) : fanout[c][j].st # "created"
    /\ \E st \in FirstRun(fanout[c][k].handler) :
           fanout' = [fanout EXCEPT ![c][k].st = st]
    /\ UNCHANGED <<handlers, event_log, counts, errors, emit_co, emit_calls,
                   called_with, bus_ret>>
    /\ UNCHANGED <<orch_vars, store_vars>>

\* Lines 99 and 102-103: a suspended coroutine handler returns or fails.
handler_resume(c, k) ==
    /\ emit_co[c] = "gathering"
    /\ k \in 1..Len(fanout[c])
    /\ fanout[c][k].st = "awaiting"
    /\ \E st \in {"returned", "failed"} :
           fanout' = [fanout EXCEPT ![c][k].st = st]
    /\ UNCHANGED <<handlers, event_log, counts, errors, emit_co, emit_calls,
                   called_with, bus_ret>>
    /\ UNCHANGED <<orch_vars, store_vars>>

\* The same gather, done as soon as one coroutine is.
GatherDoneAny(fan) == \E k \in 1..Len(fan) : fan[k].st \in Finished

\* Lines 90-93: gather(..., return_exceptions=True) is done when every
\* coroutine is; an exception that left a coroutine is one of its results.
GatherDone(fan) == \A k \in 1..Len(fan) : fan[k].st \in Finished

\* The outcome of gather without return_exceptions.
GatherOutcomeRaising(fan) ==
    IF \E k \in 1..Len(fan) : fan[k].st = "escaped" THEN "raised" ELSE "idle"

\* With return_exceptions=True gather raises nothing, and emit returns.
GatherOutcome(fan) == "idle"

\* Line 93: emit returns; its coroutines are no more.
emit_join(c) ==
    /\ emit_co[c] = "gathering"
    /\ GatherDone(fanout[c])
    /\ emit_co' = [emit_co EXCEPT ![c] = GatherOutcome(fanout[c])]
    /\ fanout' = [fanout EXCEPT ![c] = <<>>]
    /\ bus_ret' = Returned("None", <<>>)
    /\ UNCHANGED <<handlers, event_log, counts, errors, emit_calls,
                   called_with>>
    /\ UNCHANGED <<orch_vars, store_vars>>

\* Python's seq[-n:] for n >= 0: seq[-0:] is seq[0:], the whole list.
LastN(seq, n) ==
    IF n = 0 THEN seq
    ELSE SubSeq(seq, IF Len(seq) > n THEN Len(seq) - n + 1 ELSE 1, Len(seq))

\* Lines 113-115: get_events_by_type(event_type, limit).
EventsByType(event_type, limit) ==
    LastN(SelectSeq(event_log, LAMBDA e : e.type = event_type), limit)

get_events_by_type(event_type, limit) ==
    /\ bus_ret' = Returned("get_events_by_type", EventsByType(event_type, limit))
    /\ UNCHANGED <<handlers, event_log, counts, errors, emit_co, fanout,
                   emit_calls, called_with>>
    /\ UNCHANGED <<orch_vars, store_vars>>

\* Lines 117-119: get_events_by_source(source, limit).
EventsBySource(source, limit) ==
    LastN(SelectSeq(event_log, LAMBDA e : e.source = source), limit)

get_events_by_source(source, limit) ==
    /\ bus_ret' = Returned("get_events_by_source", EventsBySource(source, limit))
    /\ UNCHANGED <<handlers, event_log, counts, errors, emit_co, fanout,
                   emit_calls, called_with>>
    /\ UNCHANGED <<orch_vars, store_vars>>

\* Line 164: the number of errors export reports.
RecentErrors == 10

\* sum(self.counts.values()).
RECURSIVE SumCounts(_, _)
SumCounts(cs, types) ==
    IF types = {} THEN 0
    ELSE LET t == CHOOSE x \in types : TRUE
         IN  cs[t] + SumCounts(cs, types \ {t})

\* Lines 155-165 and 121-123: export_metrics().  error_rate is held as the
\* pair it is the quotient of; average_durations is left out.
MetricsExport ==
    [event_counts |-> counts,
     error_rate |-> IF DOMAIN counts # {}
                    THEN <<Len(errors), SumCounts(counts, DOMAIN counts)>>
                    ELSE <<0, 1>>,
     recent_errors |-> LastN(errors, RecentErrors)]

export_metrics ==
    /\ bus_ret' = Returned("export_metrics", MetricsExport)
    /\ UNCHANGED <<handlers, event_log, counts, errors, emit_co, fanout,
                   emit_calls, called_with>>
    /\ UNCHANGED <<orch_vars, store_vars>>

\* The types of the events recorded in the runs of the metrics alone.
RecordTypes == {"task.failed", "gate.failed", "task.completed"}

\* Lines 133-153: EventMetrics.record(event), which emit calls with each
\* event (line 83); emit_calls keeps the events recorded.
record(type) ==
    /\ Len(emit_calls) < MaxRecords
    /\ LET event == BusEvent(Len(emit_calls) + 1, type, "orchestrator")
       IN  /\ emit_calls' = Append(emit_calls, event)
           /\ counts' = record_count(counts, event)
           /\ errors' = record_errors(errors, event)
    /\ bus_ret' = Returned("None", <<>>)
    /\ UNCHANGED <<handlers, event_log, emit_co, fanout, called_with>>
    /\ UNCHANGED <<orch_vars, store_vars>>

\* ========================================================= context store
\* src/core/context.py.  Line 29: compression_threshold = 0.75, as a fraction.
ThresholdNum == 3
ThresholdDen == 4

\* Line 36: relevance_decay = 0.95, as a fraction.
DecayNum == 19
DecayDen == 20

\* Line 201: len(text) // 4.
CharsPerToken == 4

\* Line 15 and line 38: the default relevance, 1.0.
DefaultRelevance == 1

RECURSIVE Power(_, _)
Power(b, e) == IF e = 0 THEN 1 ELSE b * Power(b, e - 1)

\* A relevance_score x is held as the integer x * ScoreUnit, which keeps
\* every product with relevance_decay exact: a score is decayed at most once
\* by each call of the store.
ScoreUnit == Power(DecayDen, MaxStoreOps)

\* The keys the callers of the model use, with len(key).
StoreKeys == {"metrics", "metrics.cpu"}

KeyChars(key) == Len(key)

\* The values the callers of the model store: value.chars is the length of
\* json.dumps(value, default=str).
Values ==
    {[text |-> "short", chars |-> ShortChars],
     [text |-> "long", chars |-> LongChars],
     [text |-> "huge", chars |-> HugeChars]}

\* The relevance values the callers pass to set (a float, not validated).
Relevances == {-1, DefaultRelevance}

\* What get returns for `default`, and what a call without a result returns.
DefaultValue == [text |-> "default", chars |-> 0]

NoneValue == [text |-> "None", chars |-> 0]

\* Lines 11-21: ContextEntry(key, value, relevance_score, last_accessed,
\* access_count); __post_init__ reads the clock for last_accessed.
ContextEntry(value, relevance_score, access_count, clock) ==
    [value |-> value, relevance_score |-> relevance_score,
     last_accessed |-> clock, access_count |-> access_count]

\* datetime.now(): the clock does not go back, and two calls may read the
\* same time.
Ticks == {0, 1}

RECURSIVE SumChars(_, _)
SumChars(ctx, keys) ==
    IF keys = {} THEN 0
    ELSE LET k == CHOOSE x \in keys : TRUE
         IN  KeyChars(k) + 2 + 2 + ctx[k].value.chars + SumChars(ctx, keys \ {k})

\* Lines 163-166: len(json.dumps({k: v.value ...}, default=str)): the braces,
\* for each key "key": value, and ", " between two items.
JsonChars(ctx) ==
    LET n == Cardinality(DOMAIN ctx)
    IN  2 + SumChars(ctx, DOMAIN ctx) + (IF n > 0 THEN 2 * (n - 1) ELSE 0)

\* Lines 161-166 and 199-201: get_token_usage().
get_token_usage(ctx) == JsonChars(ctx) \div CharsPerToken

\* Line 44: get_token_usage() > compression_threshold.
OverTrigger(ctx) == get_token_usage(ctx) * ThresholdDen > ThresholdNum

\* Line 122: get_token_usage() > compression_threshold * max_tokens.
OverBudget(ctx) ==
    get_token_usage(ctx) * ThresholdDen > ThresholdNum * max_tokens

\* Line 117: relevance_score * access_count.
Product(e) == e.relevance_score * e.access_count

\* The same order, had the sort key been last_accessed alone.
KeyLessByRecency(e, f) == e.last_accessed < f.last_accessed

\* Lines 116-119: the order of the sort key (product, last_accessed).
KeyLess(e, f) ==
    \/ Product(e) < Product(f)
    \/ Product(e) = Product(f) /\ e.last_accessed < f.last_accessed

\* The same pop, had the list been sorted in ascending order.
VictimOfAscending(ctx, order) ==
    LET most == {i \in 1..Len(order) :
                    \A j \in 1..Len(order) : ~KeyLess(ctx[order[i]], ctx[order[j]])}
        i == CHOOSE x \in most : \A y \in most : y <= x
    IN  order[i]

\* Lines 115-119 and 125: the key entries.pop() returns.  The list is sorted
\* with reverse=True, which leaves entries with equal sort keys in the order
\* of the dict, so the last of the list is, among the entries with the
\* least sort key, the last of the dict.
Victim(ctx, order) ==
    LET least == {i \in 1..Len(order) :
                     \A j \in 1..Len(order) : ~KeyLess(ctx[order[j]], ctx[order[i]])}
        i == CHOOSE x \in least : \A y \in least : y <= x
    IN  order[i]

\* del self.context[key].
Deleted(ctx, key) == [k \in DOMAIN ctx \ {key} |-> ctx[k]]

DeletedFrom(order, key) == SelectSeq(order, LAMBDA k : k # key)

\* The eviction loop, had it stopped after one eviction.
EvictOnce(ctx, order) ==
    IF OverBudget(ctx) /\ order # <<>>
    THEN LET key == Victim(ctx, order)
         IN  [context |-> Deleted(ctx, key), key_order |-> DeletedFrom(order, key)]
    ELSE [context |-> ctx, key_order |-> order]

\* The eviction loop, had it evicted down to the threshold of line 44.
RECURSIVE EvictToTrigger(_, _)
EvictToTrigger(ctx, order) ==
    IF OverTrigger(ctx) /\ order # <<>>
    THEN LET key == Victim(ctx, order)
         IN  EvictToTrigger(Deleted(ctx, key), DeletedFrom(order, key))
    ELSE [context |-> ctx, key_order |-> order]

\* Lines 121-126: the eviction loop.
RECURSIVE EvictLoop(_, _)
EvictLoop(ctx, order) ==
    IF OverBudget(ctx) /\ order # <<>>
    THEN LET key == Victim(ctx, order)
         IN  EvictLoop(Deleted(ctx, key), DeletedFrom(order, key))
    ELSE [context |-> ctx, key_order |-> order]

\* Line 130: entry.relevance_score *= relevance_decay.
Decayed(score) == (score * DecayNum) \div DecayDen

\* Lines 112-130: _compress().
Compressed(ctx, order) ==
    LET kept == EvictLoop(ctx, order)
    IN  [context |-> [k \in DOMAIN kept.context |->
                         [kept.context[k] EXCEPT
                             !.relevance_score = Decayed(@)]],
         key_order |-> kept.key_order]

\* self.context[key] = entry: a new key goes to the end of the dict.
Stored(ctx, key, entry) ==
    [k \in DOMAIN ctx \cup {key} |-> IF k = key THEN entry ELSE ctx[k]]

StoredIn(order, key) ==
    IF \E i \in 1..Len(order) : order[i] = key THEN order ELSE Append(order, key)

\* Lines 38-45: set(key, value, relevance).
set(key, value, relevance) ==
    /\ store_ops < MaxStoreOps
    /\ store_ops' = store_ops + 1
    /\ \E tick \in Ticks : now' = now + tick
    /\ LET entry == ContextEntry(value, relevance * ScoreUnit, 0, now)
           ctx == Stored(context, key, entry)
           order == StoredIn(key_order, key)
           after == IF OverTrigger(ctx) THEN Compressed(ctx, order)
                    ELSE [context |-> ctx, key_order |-> order]
       IN  /\ context' = after.context
           /\ key_order' = after.key_order
    /\ store_ret' = [op |-> "set", value |-> NoneValue]
    /\ UNCHANGED <<max_tokens, exported, call>>
    /\ UNCHANGED <<orch_vars, bus_vars>>

\* The same lines, had a hit taken the entry out of the dict.
GetHitConsuming(ctx, key, clock) ==
    [k \in DOMAIN ctx \ {key} |-> ctx[k]]

\* The same lines, had a hit refreshed the relevance as well.
GetHitRefreshing(ctx, key, clock) ==
    [ctx EXCEPT ![key].access_count = @ + 1, ![key].last_accessed = clock,
                ![key].relevance_score = DefaultRelevance * ScoreUnit]

\* Lines 47-54: get(key, default).
GetHit(ctx, key, clock) ==
    [ctx EXCEPT ![key].access_count = @ + 1, ![key].last_accessed = clock]

get(key) ==
    /\ store_ops < MaxStoreOps
    /\ store_ops' = store_ops + 1
    /\ IF key \in DOMAIN context
       THEN /\ context' = GetHit(context, key, now)
            /\ \E tick \in Ticks : now' = now + tick
            /\ store_ret' = [op |-> "get", value |-> context[key].value]
       ELSE /\ store_ret' = [op |-> "get", value |-> DefaultValue]
            /\ UNCHANGED <<context, now>>
    /\ UNCHANGED <<max_tokens, key_order, exported, call>>
    /\ UNCHANGED <<orch_vars, bus_vars>>

\* Lines 69-95: relevance_map, the topic keys of each role and task type.
RelevanceMap ==
    [product_owner |->
         [requirements |-> {"business_goals", "user_stories", "constraints"},
          planning |-> {"sprint_capacity", "backlog", "priorities"},
          review |-> {"acceptance_criteria", "metrics", "feedback"}],
     backend_dev |->
         [design |-> {"api_standards", "data_models", "architecture"},
          implement |-> {"tech_stack", "database_schema", "endpoints"},
          test |-> {"test_coverage", "integration_points", "performance"}],
     frontend_dev |->
         [design |-> {"ui_framework", "design_system", "components"},
          implement |-> {"state_management", "api_endpoints", "routes"},
          test |-> {"browser_targets", "accessibility", "performance"}],
     devops_eng |->
         [setup |-> {"infrastructure", "ci_tools", "deployment_targets"},
          deploy |-> {"pipeline_config", "secrets", "monitoring"},
          monitor |-> {"metrics", "alerts", "sla_requirements"}],
     qa_engineer |->
         [plan |-> {"quality_standards", "test_strategy", "coverage_goals"},
          test |-> {"test_suites", "bug_tracking", "environments"},
          report |-> {"metrics", "issues", "recommendations"}]]

\* Lines 98-99: relevance_map.get(role, {}).get(task_type, []).
TaskKeys(task_type, role) ==
    IF role \in DOMAIN RelevanceMap
    THEN IF task_type \in DOMAIN RelevanceMap[role]
         THEN RelevanceMap[role][task_type]
         ELSE {}
    ELSE {}

\* str.startswith(prefix).
StartsWith(string, prefix) ==
    /\ Len(string) >= Len(prefix)
    /\ SubSeq(string, 1, Len(prefix)) = prefix

\* Lines 67-110: _calculate_relevance(task_type, role): the topic keys and
\* the keys of the dict that start with a topic key and a dot.
Relevant(ctx, task_type, role) ==
    TaskKeys(task_type, role) \cup
        {ctx_key \in DOMAIN ctx :
            \E key \in TaskKeys(task_type, role) :
                StartsWith(ctx_key, key \o ".")}

\* Line 150: the length above which a text is replaced by its summary.
TextSummaryChars == 1000

\* Lines 132-159: _apply_compression_patterns, for a value that is a text
\* (value.chars counts its two quotes).
Summarised(value) ==
    IF value.chars - 2 > TextSummaryChars
    THEN [text |-> "text_summary", chars |-> value.chars]
    ELSE value

\* Lines 56-65: get_relevant_context(task_type, role) reads the entries
\* and writes none.
RelevantContext(ctx, task_type, role) ==
    [key \in Relevant(ctx, task_type, role) \cap DOMAIN ctx |->
        Summarised(ctx[key].value)]

get_relevant_context(task_type, role) ==
    /\ store_ops < MaxStoreOps
    /\ store_ops' = store_ops + 1
    /\ store_ret' = [op |-> "get_relevant_context",
                     value |-> RelevantContext(context, task_type, role)]
    /\ UNCHANGED <<max_tokens, context, key_order, now, exported, call>>
    /\ UNCHANGED <<orch_vars, bus_vars>>

\* Lines 168-184: export_context().  The payload keeps the order of the
\* dict; its metadata is not read by import_context.
ExportOf(ctx, order) ==
    [context |-> [k \in DOMAIN ctx |->
                     [value |-> ctx[k].value,
                      relevance |-> ctx[k].relevance_score,
                      access_count |-> ctx[k].access_count]],
     key_order |-> order]

\* Line 28: the empty dict.
EmptyContext == [k \in {} |-> NoneValue]

\* The role handlers of one wave that use the store: coroutines gathered by
\* execute_wave (src/core/orchestrator.py, lines 213-216).
Handlers == {"backend_dev", "frontend_dev"}

\* A handler that is in no call on the store; op is its last call.
IdleCall(op) ==
    [step |-> "idle", op |-> op, key |-> "None", value |-> NoneValue,
     relevance |-> 0, clock |-> 0, ctx |-> EmptyContext, order |-> <<>>,
     entries |-> <<>>]

\* Lines 26-36: the state after ContextManager(max_tokens).
ContextManagerInit(budget) ==
    /\ max_tokens = budget
    /\ context = EmptyContext
    /\ key_order = <<>>
    /\ now = 0
    /\ exported = ExportOf(EmptyContext, <<>>)
    /\ store_ret = [op |-> "None", value |-> NoneValue]
    /\ store_ops = 0
    /\ call = [h \in Handlers |-> IdleCall("None")]

\* Lines 168-184: export_context(), the payload handed to the caller.
export_context ==
    /\ store_ops < MaxStoreOps
    /\ store_ops' = store_ops + 1
    /\ exported' = ExportOf(context, key_order)
    /\ store_ret' = [op |-> "export_context", value |-> NoneValue]
    /\ UNCHANGED <<max_tokens, context, key_order, now, call>>
    /\ UNCHANGED <<orch_vars, bus_vars>>

\* The same entry, had import_context not read access_count.
ImportedEntryFresh(entry_data, clock) ==
    ContextEntry(entry_data.value,
                 IF "relevance" \in DOMAIN entry_data
                 THEN entry_data.relevance ELSE DefaultRelevance * ScoreUnit,
                 0,
                 clock)

\* Lines 189-194: the entry import_context builds from entry_data.
ImportedEntry(entry_data, clock) ==
    ContextEntry(entry_data.value,
                 IF "relevance" \in DOMAIN entry_data
                 THEN entry_data.relevance ELSE DefaultRelevance * ScoreUnit,
                 IF "access_count" \in DOMAIN entry_data
                 THEN entry_data.access_count ELSE 0,
                 clock)

\* Lines 186-194: the loop of import_context over the items of the payload,
\* from item i on; entry_data["value"] of an entry without it raises KeyError
\* and leaves the entries imported before it in the store.
RECURSIVE ImportLoop(_, _, _, _, _, _)
ImportLoop(ctx, order, data, i, clock, tick) ==
    IF i > Len(data.key_order)
    THEN [context |-> ctx, key_order |-> order, raised |-> FALSE]
    ELSE LET key == data.key_order[i]
             entry_data == data.context[key]
         IN  IF "value" \notin DOMAIN entry_data
             THEN [context |-> ctx, key_order |-> order, raised |-> TRUE]
             ELSE ImportLoop(Stored(ctx, key, ImportedEntry(entry_data, clock)),
                             StoredIn(order, key), data, i + 1, clock + tick, tick)

\* Line 189: data.get("context", {}): a payload with no "context" is read
\* as one with no entries.
PayloadContext(data) ==
    IF "context" \in DOMAIN data THEN data ELSE ExportOf(EmptyContext, <<>>)

Imported(ctx, order, data, clock, tick) ==
    ImportLoop(ctx, order, PayloadContext(data), 1, clock, tick)

import_context ==
    /\ store_ops < MaxStoreOps
    /\ store_ops' = store_ops + 1
    /\ \E tick \in Ticks :
           LET after == Imported(context, key_order, exported, now, tick)
           IN  /\ context' = after.context
               /\ key_order' = after.key_order
               /\ now' = now + tick * Len(PayloadContext(exported).key_order)
               /\ store_ret' = [op |-> IF after.raised THEN "KeyError"
                                       ELSE "import_context",
                                value |-> NoneValue]
    /\ UNCHANGED <<max_tokens, exported, call>>
    /\ UNCHANGED <<orch_vars, bus_vars>>

\* The payloads a caller hands to import_context that are not the export of
\* a store: the JSON object with no "context", and an export in which the
\* entry of a key has lost its "value".
EmptyPayload == [k \in {} |-> NoneValue]

payload_without_context ==
    /\ "context" \in DOMAIN exported
    /\ exported' = EmptyPayload
    /\ UNCHANGED <<max_tokens, context, key_order, now, store_ret, store_ops,
                   call>>
    /\ UNCHANGED <<orch_vars, bus_vars>>

payload_without_value(key) ==
    /\ "context" \in DOMAIN exported
    /\ key \in DOMAIN exported.context
    /\ "value" \in DOMAIN exported.context[key]
    /\ exported' = [exported EXCEPT !.context[key] =
                        [relevance |-> @.relevance,
                         access_count |-> @.access_count]]
    /\ UNCHANGED <<max_tokens, context, key_order, now, store_ret, store_ops,
                   call>>
    /\ UNCHANGED <<orch_vars, bus_vars>>

\* A new session: ContextManager(max_tokens) again, the payload kept by
\* the caller.
new_ContextManager ==
    /\ store_ops < MaxStoreOps
    /\ DOMAIN context # {}
    /\ context' = EmptyContext
    /\ key_order' = <<>>
    /\ store_ret' = [op |-> "None", value |-> NoneValue]
    /\ UNCHANGED <<max_tokens, now, exported, store_ops, call>>
    /\ UNCHANGED <<orch_vars, bus_vars>>

\* ------------------------------------------- the store, statement by statement
\* The calls of the role handlers of one wave on the store they share, one
\* step for each statement (or loop iteration) of set, _compress and get.

\* The same, had the handlers been threads, which are suspended anywhere.
SuspendableAnywhere(c) == TRUE

\* Whether the event loop may run another coroutine while a handler is
\* where c says: a coroutine is suspended at an await only, and set, get
\* and _compress are plain functions with no await (lines 38-54, 112-130).
Suspendable(c) == c.step = "idle"

CanStep(h) == \A g \in Handlers \ {h} : Suspendable(call[g])

\* Lines 38-45 as one call: what set does to the dict.
SetEffect(ctx, order, key, value, relevance, clock) ==
    LET entry == ContextEntry(value, relevance * ScoreUnit, 0, clock)
        stored == Stored(ctx, key, entry)
        stored_in == StoredIn(order, key)
    IN  IF OverTrigger(stored) THEN Compressed(stored, stored_in)
        ELSE [context |-> stored, key_order |-> stored_in]

\* Lines 47-54 as one call: what get does to the dict.
GetEffect(ctx, order, key, clock) ==
    [context |-> IF key \in DOMAIN ctx THEN GetHit(ctx, key, clock) ELSE ctx,
     key_order |-> order]

\* The same list, had it been sorted without reverse=True: the least sort
\* key first, entries with equal sort keys in the order of the dict.
RECURSIVE RankedAscending(_, _)
RankedAscending(ctx, order) ==
    IF order = <<>> THEN <<>>
    ELSE LET least == {i \in 1..Len(order) :
                         \A j \in 1..Len(order) :
                             ~KeyLess(ctx[order[j]], ctx[order[i]])}
             i == CHOOSE x \in least : \A y \in least : x <= y
         IN  <<order[i]>> \o RankedAscending(ctx, DeletedFrom(order, order[i]))

\* Lines 115-119: sorted(self.context.items(), key=..., reverse=True), as
\* the list of its keys: the greatest sort key first, entries with equal
\* sort keys in the order of the dict.
RECURSIVE Ranked(_, _)
Ranked(ctx, order) ==
    IF order = <<>> THEN <<>>
    ELSE LET greatest == {i \in 1..Len(order) :
                            \A j \in 1..Len(order) :
                                ~KeyLess(ctx[order[i]], ctx[order[j]])}
             i == CHOOSE x \in greatest : \A y \in greatest : x <= y
         IN  <<order[i]>> \o Ranked(ctx, DeletedFrom(order, order[i]))

\* Lines 40-42: the entry is built and stored.
handler_set(h, key, value, relevance) ==
    /\ CanStep(h)
    /\ call[h].step = "idle"
    /\ store_ops < MaxHandlerCalls
    /\ store_ops' = store_ops + 1
    /\ \E tick \in Ticks : now' = now + tick
    /\ context' = Stored(context, key,
                         ContextEntry(value, relevance * ScoreUnit, 0, now))
    /\ key_order' = StoredIn(key_order, key)
    /\ call' = [call EXCEPT ![h] =
                    [step |-> "stored", op |-> "set", key |-> key,
                     value |-> value, relevance |-> relevance, clock |-> now,
                     ctx |-> context, order |-> key_order, entries |-> <<>>]]
    /\ UNCHANGED <<max_tokens, exported, store_ret>>
    /\ UNCHANGED <<orch_vars, bus_vars>>

\* Lines 44-45: the test of set, and its return when it does not compress.
set_trigger(h) ==
    /\ CanStep(h)
    /\ call[h].step = "stored"
    /\ IF OverTrigger(context)
       THEN /\ call' = [call EXCEPT ![h].step = "compress"]
            /\ UNCHANGED store_ret
       ELSE /\ call' = [call EXCEPT ![h] = IdleCall("set")]
            /\ store_ret' = [op |-> "set", value |-> NoneValue]
    /\ UNCHANGED <<max_tokens, context, key_order, now, exported, store_ops>>
    /\ UNCHANGED <<orch_vars, bus_vars>>

\* Lines 115-119: the entries are ranked.
compress_sort(h) ==
    /\ CanStep(h)
    /\ call[h].step = "compress"
    /\ call' = [call EXCEPT ![h].step = "evicting",
                            ![h].entries = Ranked(context, key_order)]
    /\ UNCHANGED <<max_tokens, context, key_order, now, exported, store_ret,
                   store_ops>>
    /\ UNCHANGED <<orch_vars, bus_vars>>

\* Lines 122-126: one test of the while loop and, when it holds, one pop
\* and one del.
compress_evict(h) ==
    /\ CanStep(h)
    /\ call[h].step = "evicting"
    /\ LET entries == call[h].entries
       IN  IF OverBudget(context) /\ entries # <<>>
           THEN LET key == entries[Len(entries)]
                IN  /\ call' = [call EXCEPT ![h].entries =
                                    SubSeq(entries, 1, Len(entries) - 1)]
                    /\ IF key \in DOMAIN context
                       THEN /\ context' = Deleted(context, key)
                            /\ key_order' = DeletedFrom(key_order, key)
                       ELSE UNCHANGED <<context, key_order>>
           ELSE /\ call' = [call EXCEPT ![h].step = "decaying"]
                /\ UNCHANGED <<context, key_order>>
    /\ UNCHANGED <<max_tokens, now, exported, store_ret, store_ops>>
    /\ UNCHANGED <<orch_vars, bus_vars>>

\* Lines 129-130: the scores that are left decay, and set returns.
compress_decay(h) ==
    /\ CanStep(h)
    /\ call[h].step = "decaying"
    /\ context' = [k \in DOMAIN context |->
                      [context[k] EXCEPT !.relevance_score = Decayed(@)]]
    /\ call' = [call EXCEPT ![h] = IdleCall("set")]
    /\ store_ret' = [op |-> "set", value |-> NoneValue]
    /\ UNCHANGED <<max_tokens, key_order, now, exported, store_ops>>
    /\ UNCHANGED <<orch_vars, bus_vars>>

\* Lines 49-51 and 54: the lookup of get and, on a hit, the count; a miss
\* returns the default.
handler_get(h, key) ==
    /\ CanStep(h)
    /\ call[h].step = "idle"
    /\ store_ops < MaxHandlerCalls
    /\ store_ops' = store_ops + 1
    /\ IF key \in DOMAIN context
       THEN /\ context' = [context EXCEPT ![key].access_count = @ + 1]
            /\ call' = [call EXCEPT ![h] =
                            [step |-> "counted", op |-> "get", key |-> key,
                             value |-> context[key].value, relevance |-> 0,
                             clock |-> now, ctx |-> context,
                             order |-> key_order, entries |-> <<>>]]
            /\ UNCHANGED store_ret
       ELSE /\ call' = [call EXCEPT ![h] = IdleCall("get")]
            /\ store_ret' = [op |-> "get", value |-> DefaultValue]
            /\ UNCHANGED context
    /\ UNCHANGED <<max_tokens, key_order, now, exported>>
    /\ UNCHANGED <<orch_vars, bus_vars>>

\* Lines 52-53: the time of the access is written and the value returned.
get_touch(h) ==
    /\ CanStep(h)
    /\ call[h].step = "counted"
    /\ \E tick \in Ticks : now' = now + tick
    /\ IF call[h].key \in DOMAIN context
       THEN context' = [context EXCEPT ![call[h].key].last_accessed = now]
       ELSE UNCHANGED context
    /\ store_ret' = [op |-> "get", value |-> call[h].value]
    /\ call' = [call EXCEPT ![h] = IdleCall("get")]
    /\ UNCHANGED <<max_tokens, key_order, exported, store_ops>>
    /\ UNCHANGED <<orch_vars, bus_vars>>

\* ========================================================== orchestrator
\* ------------------------------------------------------------ Task, roles
\* The keys of role_handlers.
KnownRoles ==
    {"product_owner", "backend_dev", "frontend_dev", "devops_eng",
     "qa_engineer", "tech_lead"}

\* TaskStatus.
TaskStatus == {"pending", "running", "completed", "failed"}

\* Task(id, role, action, dependencies): status PENDING, result None,
\* error None.  Ids are the positions 1..n of the list; 0 is an id that no
\* task of the list carries.
Task(id, role, dependencies) ==
    [id |-> id, role |-> role, dependencies |-> dependencies]

DepSets(n, maxDeps) ==
    {D \in SUBSET (0..n) : Cardinality(D) <= maxDeps}

\* The list of n tasks with roles rf and dependencies df.
TaskList(n, rf, df) == [i \in 1..n |-> Task(i, rf[i], df[i])]

Ids(ts) == {ts[k].id : k \in 1..Len(ts)}

\* ======================================================= calculate_waves
\* A task taken as ready once any one of its dependencies is completed.
ReadyAny(task, completed_ids) ==
    \/ task.dependencies = {}
    \/ task.dependencies \cap completed_ids # {}

\* Line 57: all(dep in completed_ids for dep in task.dependencies).
Ready(task, completed_ids) ==
    task.dependencies \subseteq completed_ids

\* The first task of remaining_tasks that can run, alone.
WaveOfFirstReady(remaining_tasks, completed_ids) ==
    LET ready == SelectSeq(remaining_tasks,
                           LAMBDA t : t.dependencies \subseteq completed_ids)
    IN  IF ready = <<>> THEN <<>> ELSE <<ready[1]>>

\* The same tasks, the last of the list first.
WaveOfReversed(remaining_tasks, completed_ids) ==
    LET ready == SelectSeq(remaining_tasks,
                           LAMBDA t : t.dependencies \subseteq completed_ids)
    IN  [k \in 1..Len(ready) |-> ready[Len(ready) + 1 - k]]

\* Lines 54-58: the tasks of remaining_tasks that can run, in list order.
WaveOf(remaining_tasks, completed_ids) ==
    SelectSeq(remaining_tasks, LAMBDA t : Ready(t, completed_ids))

\* Line 66: [t for t in remaining_tasks if t not in wave].
Without(remaining_tasks, wave) ==
    SelectSeq(remaining_tasks,
              LAMBDA t : \A k \in 1..Len(wave) : wave[k] # t)

\* Line 62: the error calculate_waves raises.
CircularDependency == "ValueError: Circular dependency detected"

\* An empty wave that ends the loop with the waves built so far.
BestEffortWaves(waves_so_far) ==
    [raised |-> FALSE, waves |-> waves_so_far]

\* Lines 60-62: an empty wave while tasks remain raises ValueError; the
\* caller gets no wave list.
OnEmptyWave(waves_so_far) ==
    [raised |-> TRUE, waves |-> <<>>]

\* Lines 53-68: the while loop, one iteration per unfolding.
RECURSIVE WavesLoop(_, _, _)
WavesLoop(remaining_tasks, completed_ids, waves_so_far) ==
    IF remaining_tasks = <<>>
    THEN [raised |-> FALSE, waves |-> waves_so_far]
    ELSE LET wave == WaveOf(remaining_tasks, completed_ids)
         IN  IF wave = <<>>
             THEN OnEmptyWave(waves_so_far)
             ELSE WavesLoop(Without(remaining_tasks, wave),
                            completed_ids \cup Ids(wave),
                            Append(waves_so_far, wave))

\* A scheduler that takes the ids no task of the list carries as completed.
calculate_waves_foreign_done(ts) ==
    WavesLoop(ts, UNION {ts[k].dependencies : k \in 1..Len(ts)} \ Ids(ts), <<>>)

\* Lines 47-68: completed_ids starts empty, waves starts empty.
calculate_waves(ts) == WavesLoop(ts, {}, <<>>)

\* The ids of each wave, wave by wave.
WaveIds(ws) == [w \in 1..Len(ws) |-> [k \in 1..Len(ws[w]) |-> ws[w][k].id]]

\* ------------------------------------------- the dependency graph itself
\* Every dependency id is the id of a task of the list.
Resolved(ts) == \A k \in 1..Len(ts) : ts[k].dependencies \subseteq Ids(ts)

\* The ids reachable from id i along at most `steps` dependency edges.
RECURSIVE DependsOn(_, _, _)
DependsOn(ts, from, steps) ==
    IF steps = 0 THEN {}
    ELSE LET direct == UNION {ts[k].dependencies : k \in {j \in 1..Len(ts) : ts[j].id \in from}}
         IN  direct \cup DependsOn(ts, direct, steps - 1)

\* No task depends on itself, directly or through other tasks.
Acyclic(ts) == \A k \in 1..Len(ts) : ts[k].id \notin DependsOn(ts, {ts[k].id}, Len(ts))

Schedulable(ts) == Resolved(ts) /\ Acyclic(ts)

\* The wave (index) that holds id i, 0 when no wave holds it.
WaveIndex(ws, i) ==
    IF \E w \in 1..Len(ws) : \E k \in 1..Len(ws[w]) : ws[w][k] = i
    THEN CHOOSE w \in 1..Len(ws) : \E k \in 1..Len(ws[w]) : ws[w][k] = i
    ELSE 0

\* The places <<wave, position>> of the waves.
Places(ws) == UNION {{<<w, k>> : k \in 1..Len(ws[w])} : w \in 1..Len(ws)}

\* How many places of the waves hold id i.
Occurrences(ws, i) ==
    Cardinality({p \in Places(ws) : ws[p[1]][p[2]] = i})

\* ============================================================== executor
\* The roles given to the tasks of an executed batch: a role of
\* role_handlers (tech_lead, which also has the pre-task hooks of lines
\* 77-82 once a hooks runner is set) and a role that role_handlers does not
\* hold.
BatchRoles == {"tech_lead", "intern"}

\* The batches handed to execute_wave: each task depends on nothing, on the
\* task before it or on the task after it in the list.  The neighbour of
\* the first (last) task is an id that no task of the list carries.
NeighbourDeps(i, which) ==
    CASE which = "none" -> {}
      [] which = "before" -> {i - 1}
      [] which = "after" -> {i + 1}

\* The observers registered with on_event: callables that, each time they
\* are called, return or raise.
HandlerKinds == {"observer"}

\* Lines 249-252: the event _emit_event builds.
Event(type, task, wave, size) ==
    [type |-> type, task |-> task, wave |-> wave, size |-> size]

\* Lines 253-254: handler(event) for each handler, in registration order.
\* Whether some handler can raise on this call.
MayRaise(registered) ==
    IF registered # <<>> THEN BOOLEAN ELSE {FALSE}

\* Lines 253-254: _emit_event has no try around handler(event), so an
\* exception raised by a handler leaves _emit_event.
Propagates(handler_raised) == handler_raised

\* str(e) of the exception an observer raised.
ObserverError == "observer raised"

\* The same results, had the hooks of a tech_lead task run with no runner
\* set.
HookResultsWithoutRunner(task, runner) ==
    IF task.role = "tech_lead"
    THEN {"passed", "failed", "failed_no_error"}
    ELSE {"no_hook"}

\* hooks_runner.run_hooks(task.action), lines 77-79: the result mapping of
\* the runner.  "passed": success is true.  "failed": success is false and
\* the mapping has an 'error' entry.  "failed_no_error": success is false
\* and the mapping has no 'error' entry (the mapping of src/core/hooks.py,
\* lines 31-55), so line 80 raises KeyError inside the try.
HookResults(task, runner) ==
    IF task.role = "tech_lead" /\ runner # "None"
    THEN {"passed", "failed", "failed_no_error"}
    ELSE {"no_hook"}

\* Lines 101-116: _execute_by_role.  A role without handler raises
\* ValueError; _handle_tech_lead and the handlers it dispatches to call
\* into the hooks runner when one is set, and that call can raise.
HandlerOutcomes(task, runner) ==
    IF task.role \notin KnownRoles THEN {"Unknown role"}
    ELSE IF task.role = "tech_lead" /\ runner # "None"
         THEN {"ok", "handler raised"}
         ELSE {"ok"}

\* The tasks of wave w (ids), as a set.
WaveSet(ws, w) == {ws[w][k] : k \in 1..Len(ws[w])}

\* The place of id t in wave w.
PlaceIn(ws, w, t) == CHOOSE k \in 1..Len(ws[w]) : ws[w][k] = t

\* len(tasks): the tasks are 1..N.
N == Len(tasks)

TypeOK ==
    /\ status \in [1..N -> TaskStatus]
    /\ pc \in {"idle", "gathering", "returned", "raised"}
    /\ wave_i \in 0..N
    /\ co \in [1..N -> {"none", "created", "hooking", "sleeping", "excepting",
                         "hung", "returned", "raised"}]
    /\ calls \in 0..MaxCalls

\* No synthesize_results call made yet.
NoSynthesis ==
    [op |-> "None", total_tasks |-> 0, completed |-> 0, failed |-> 0,
     by_role |-> [r \in {} |-> <<>>]]

\* The state after ParallelOrchestrator() and the construction of the
\* Task objects of `ts`.
InitWith(ts) ==
    /\ tasks = ts
    /\ status = [i \in 1..Len(ts) |-> "pending"]
    /\ result = [i \in 1..Len(ts) |-> "None"]
    /\ error = [i \in 1..Len(ts) |-> "None"]
    /\ event_handlers = <<>>
    /\ hooks_runner = "None"
    /\ pc = "idle"
    /\ waves = <<>>
    /\ wave_i = 0
    /\ co = [i \in 1..Len(ts) |-> "none"]
    /\ all_results = <<>>
    /\ exc = "None"
    /\ events = <<>>
    /\ calls = 0
    /\ synthesis = NoSynthesis
    /\ EventBusInit
    /\ ContextManagerInit(Budget)

\* The state after ParallelOrchestrator() and the construction of a batch
\* of at most maxTasks tasks.
InitBatch(maxTasks) ==
    \E n \in 0..maxTasks :
        \E rf \in [1..n -> BatchRoles], wf \in [1..n -> {"none", "before", "after"}] :
            InitWith(TaskList(n, rf, [i \in 1..n |-> NeighbourDeps(i, wf[i])]))

\* Lines 256-258: on_event.
on_event ==
    /\ UNCHANGED <<bus_vars, store_vars, synthesis>>
    /\ pc = "idle"
    /\ Len(event_handlers) < MaxHandlers
    /\ \E h \in HandlerKinds : event_handlers' = Append(event_handlers, h)
    /\ UNCHANGED <<tasks, status, result, error, hooks_runner, pc, waves,
                   wave_i, co, all_results, exc, events, calls>>

\* Line 40: "hooks_runner = None  # Will be set by CLI".
set_hooks_runner ==
    /\ UNCHANGED <<bus_vars, store_vars, synthesis>>
    /\ pc = "idle"
    /\ hooks_runner = "None"
    /\ hooks_runner' = "HooksRunner"
    /\ UNCHANGED <<tasks, status, result, error, event_handlers, pc, waves,
                   wave_i, co, all_results, exc, events, calls>>

\* Lines 209-216 for wave w: _emit_event("wave.started", ...) and the
\* creation of the execute_task coroutines that gather awaits.  `log` is
\* the event log before the emit.
StartWave(ws, w, log) ==
    \E r \in MayRaise(event_handlers) :
        /\ events' = Append(log, Event("wave.started", 0, w, Len(ws[w])))
        /\ IF Propagates(r)
           THEN /\ pc' = "raised"
                /\ exc' = ObserverError
                /\ wave_i' = w
                /\ co' = [i \in 1..N |-> "none"]
           ELSE /\ pc' = "gathering"
                /\ exc' = "None"
                /\ wave_i' = w
                /\ co' = [i \in 1..N |->
                            IF i \in WaveSet(ws, w) THEN "created" ELSE "none"]

\* Lines 204-216: the call of execute_wave up to its first await.
ExecuteWaveCall ==
    /\ UNCHANGED <<bus_vars, store_vars, synthesis>>
    /\ calls' = calls + 1
    /\ all_results' = <<>>
    /\ UNCHANGED <<tasks, status, result, error, event_handlers, hooks_runner>>
    /\ LET cw == calculate_waves(tasks)
       IN  IF cw.raised
           THEN /\ pc' = "raised"
                /\ exc' = CircularDependency
                /\ waves' = <<>>
                /\ wave_i' = 0
                /\ co' = [i \in 1..N |-> "none"]
                /\ events' = <<>>
           ELSE /\ waves' = WaveIds(cw.waves)
                /\ IF cw.waves = <<>>
                   THEN /\ pc' = "returned"
                        /\ exc' = "None"
                        /\ wave_i' = 0
                        /\ co' = [i \in 1..N |-> "none"]
                        /\ events' = <<>>
                   ELSE StartWave(WaveIds(cw.waves), 1, <<>>)

\* Lines 72-73: execute_task sets RUNNING and emits task.started, outside
\* the try.  gather starts the coroutines of a wave in list order, and none
\* of them suspends before the sleep of line 85.  A task that has no
\* pre-task hook to run goes on to the sleep.
start_task(t) ==
    /\ UNCHANGED <<bus_vars, store_vars, synthesis>>
    /\ pc = "gathering"
    /\ co[t] = "created"
    /\ \A u \in WaveSet(waves, wave_i) :
          /\ co[u] # "hooking"
          /\ PlaceIn(waves, wave_i, u) < PlaceIn(waves, wave_i, t) => co[u] # "created"
    /\ \E r \in MayRaise(event_handlers) :
          /\ status' = [status EXCEPT ![t] = "running"]
          /\ events' = Append(events, Event("task.started", t, 0, 0))
          /\ co' = [co EXCEPT ![t] =
                      IF Propagates(r) THEN "raised"
                      ELSE IF HookResults(tasks[t], hooks_runner) = {"no_hook"}
                           THEN "sleeping" ELSE "hooking"]
    /\ UNCHANGED <<tasks, result, error, event_handlers, hooks_runner, pc,
                   waves, wave_i, all_results, exc, calls>>

\* Lines 77-85: the pre-task hooks of a tech_lead task, up to the sleep.
pre_task_hooks(t) ==
    /\ UNCHANGED <<bus_vars, store_vars, synthesis>>
    /\ pc = "gathering"
    /\ co[t] = "hooking"
    /\ \E r \in MayRaise(event_handlers),
          h \in HookResults(tasks[t], hooks_runner) :
          CASE h = "passed" ->
                  /\ co' = [co EXCEPT ![t] = "sleeping"]
                  /\ UNCHANGED <<status, error, events>>
            [] h = "failed" ->
                  \* lines 80-82
                  /\ status' = [status EXCEPT ![t] = "failed"]
                  /\ error' = [error EXCEPT ![t] = "Hook failed"]
                  /\ co' = [co EXCEPT ![t] = "returned"]
                  /\ UNCHANGED events
            [] h = "failed_no_error" ->
                  \* line 80 raises KeyError: lines 94-97
                  /\ status' = [status EXCEPT ![t] = "failed"]
                  /\ error' = [error EXCEPT ![t] = "KeyError"]
                  /\ events' = Append(events, Event("task.failed", t, 0, 0))
                  /\ co' = [co EXCEPT ![t] =
                              IF Propagates(r) THEN "raised" ELSE "returned"]
    /\ UNCHANGED <<tasks, result, event_handlers, hooks_runner, pc, waves,
                   wave_i, all_results, exc, calls>>

\* Lines 85-99: execute_task from the end of the sleep to its return, or
\* to the observer that raises while line 92 emits task.completed.  The
\* sleeps of a wave end after every coroutine of the wave has started, and
\* no other coroutine runs between line 92 and the except clause.
finish_task(t) ==
    /\ UNCHANGED <<bus_vars, store_vars, synthesis>>
    /\ pc = "gathering"
    /\ co[t] = "sleeping"
    /\ \A u \in WaveSet(waves, wave_i) :
          co[u] \notin {"created", "hooking", "excepting"}
    /\ \E r1 \in MayRaise(event_handlers),
          o \in HandlerOutcomes(tasks[t], hooks_runner) :
          IF o = "ok"
          THEN \* lines 90-92
               /\ result' = [result EXCEPT ![t] = "dict"]
               /\ status' = [status EXCEPT ![t] = "completed"]
               /\ events' = Append(events, Event("task.completed", t, 0, 0))
               /\ co' = [co EXCEPT ![t] =
                           IF Propagates(r1) THEN "excepting" ELSE "returned"]
               /\ UNCHANGED error
          ELSE \* _execute_by_role raises: lines 94-97
               /\ error' = [error EXCEPT ![t] = o]
               /\ status' = [status EXCEPT ![t] = "failed"]
               /\ events' = Append(events, Event("task.failed", t, 0, 0))
               /\ co' = [co EXCEPT ![t] =
                           IF Propagates(r1) THEN "raised" ELSE "returned"]
               /\ UNCHANGED result
    /\ UNCHANGED <<tasks, event_handlers, hooks_runner, pc, waves, wave_i,
                   all_results, exc, calls>>

\* Lines 94-99 after line 92 raised: the except clause of execute_task.
except_task(t) ==
    /\ UNCHANGED <<bus_vars, store_vars, synthesis>>
    /\ pc = "gathering"
    /\ co[t] = "excepting"
    /\ \E r \in MayRaise(event_handlers) :
          /\ error' = [error EXCEPT ![t] = ObserverError]
          /\ status' = [status EXCEPT ![t] = "failed"]
          /\ events' = Append(events, Event("task.failed", t, 0, 0))
          /\ co' = [co EXCEPT ![t] =
                      IF Propagates(r) THEN "raised" ELSE "returned"]
    /\ UNCHANGED <<tasks, result, event_handlers, hooks_runner, pc, waves,
                   wave_i, all_results, exc, calls>>

\* Lines 213-216: what gather(..., return_exceptions=True) yields for the
\* coroutine of task t: the task it returned, or the exception it raised.
GatherResult(t) ==
    [kind |-> IF co[t] = "returned" THEN "task" ELSE "exception", id |-> t]

\* Lines 213-221: gather returns once every coroutine of the wave has
\* returned or raised; then all_results.extend, wave.completed, and either
\* the next wave or the return.
wave_join ==
    /\ UNCHANGED <<bus_vars, store_vars, synthesis>>
    /\ pc = "gathering"
    /\ \A u \in WaveSet(waves, wave_i) : co[u] \in {"returned", "raised"}
    /\ all_results' = all_results \o
          [k \in 1..Len(waves[wave_i]) |-> GatherResult(waves[wave_i][k])]
    /\ \E r \in MayRaise(event_handlers) :
          LET log == Append(events, Event("wave.completed", 0, wave_i, 0))
          IN  IF Propagates(r)
              THEN /\ pc' = "raised"
                   /\ exc' = ObserverError
                   /\ events' = log
                   /\ co' = [i \in 1..N |-> "none"]
                   /\ UNCHANGED wave_i
              ELSE IF wave_i < Len(waves)
                   THEN StartWave(waves, wave_i + 1, log)
                   ELSE /\ pc' = "returned"
                        /\ exc' = "None"
                        /\ events' = log
                        /\ co' = [i \in 1..N |-> "none"]
                        /\ UNCHANGED wave_i
    /\ UNCHANGED <<tasks, status, result, error, event_handlers, hooks_runner,
                   waves, calls>>

\* Lines 236-243: the entries of by_role[role]: one for each result of that
\* role, in the order of the results.
EntriesOf(results, role) ==
    LET of_role == SelectSeq(results, LAMBDA r : tasks[r.id].role = role)
    IN  [k \in 1..Len(of_role) |->
            [id |-> of_role[k].id, status |-> status[of_role[k].id],
             result |-> result[of_role[k].id]]]

\* Lines 223-245: synthesize_results(results).  r.status of a result that
\* is an exception object raises AttributeError in the first count.
Synthesis(results) ==
    IF \E k \in 1..Len(results) : results[k].kind = "exception"
    THEN [NoSynthesis EXCEPT !.op = "AttributeError"]
    ELSE [op |-> "synthesize_results",
          total_tasks |-> Len(results),
          completed |-> Cardinality({k \in 1..Len(results) :
                                       status[results[k].id] = "completed"}),
          failed |-> Cardinality({k \in 1..Len(results) :
                                    status[results[k].id] = "failed"}),
          by_role |-> [role \in {tasks[results[k].id].role :
                                     k \in 1..Len(results)} |->
                          EntriesOf(results, role)]]

\* Lines 85-88 of src/example.py: synthesize_results on what execute_wave
\* returned.
synthesize_results ==
    /\ pc = "returned"
    /\ synthesis.op = "None"
    /\ synthesis' = Synthesis(all_results)
    /\ UNCHANGED <<tasks, status, result, error, event_handlers, hooks_runner,
                   pc, waves, wave_i, co, all_results, exc, events, calls>>
    /\ UNCHANGED <<bus_vars, store_vars>>

\* execute_wave(tasks) on freshly constructed tasks.
execute_wave ==
    /\ pc = "idle"
    /\ ExecuteWaveCall

\* execute_wave(tasks) once more, on the task objects of an earlier call.
execute_wave_again ==
    /\ pc \in {"returned", "raised"}
    /\ calls < MaxCalls
    /\ ExecuteWaveCall

\* ------------------------------------------- one execute_wave on a batch
\* The orchestrator as constructed: hooks_runner stays None.
Init == InitBatch(MaxExecTasks)

Next ==
    \/ on_event
    \/ execute_wave
    \/ \E t \in 1..N : start_task(t)
    \/ \E t \in 1..N : finish_task(t)
    \/ \E t \in 1..N : except_task(t)
    \/ wave_join

Spec == Init /\ [][Next]_vars

\* ------------------------------- one execute_wave and synthesize_results
NextSynthesis ==
    \/ Next
    \/ synthesize_results

SpecSynthesis == Init /\ [][NextSynthesis]_vars

\* -------------------------------- one execute_wave, a hooks runner set
InitHooks == InitBatch(MaxHookTasks)

NextHooks ==
    \/ Next
    \/ set_hooks_runner
    \/ \E t \in 1..N : pre_task_hooks(t)

SpecHooks == InitHooks /\ [][NextHooks]_vars

\* ------------------------------------- a handler that never returns
\* Lines 88, 114, 167 and 169-194: the handler of a tech_lead task calls
\* hooks_runner.run_hooks when a runner is set, and run_hooks waits for its
\* commands with subprocess.run and no timeout (src/core/hooks.py, lines
\* 36 and 41).  A command that never exits leaves the handler inside that
\* call: it neither returns nor raises.
handler_hangs(t) ==
    /\ UNCHANGED <<bus_vars, store_vars, synthesis>>
    /\ pc = "gathering"
    /\ co[t] = "sleeping"
    /\ \A u \in WaveSet(waves, wave_i) :
          co[u] \notin {"created", "hooking", "excepting"}
    /\ tasks[t].role = "tech_lead"
    /\ hooks_runner # "None"
    /\ co' = [co EXCEPT ![t] = "hung"]
    /\ UNCHANGED <<tasks, status, result, error, event_handlers, hooks_runner,
                   pc, waves, wave_i, all_results, exc, events, calls>>

\* subprocess.run is a synchronous call made on the thread of the event
\* loop: while a handler is inside it, no coroutine is resumed.
Blocked == \E t \in 1..N : co[t] = "hung"

\* The event loop resumes the coroutines that are ready: the execute_task
\* coroutines of the wave, and execute_wave once gather is done.
RunReady ==
    /\ ~Blocked
    /\ \/ \E t \in 1..N : start_task(t)
       \/ \E t \in 1..N : pre_task_hooks(t)
       \/ \E t \in 1..N : finish_task(t)
       \/ \E t \in 1..N : except_task(t)
       \/ wave_join

NextHang ==
    \/ on_event
    \/ set_hooks_runner
    \/ execute_wave
    \/ RunReady
    \/ \E t \in 1..N : handler_hangs(t)

\* The event loop runs a ready coroutine in the end (it serves its ready
\* queue first in, first out); nothing says that execute_wave is called,
\* or that a handler hangs.
SpecHang == InitHooks /\ [][NextHang]_vars /\ WF_vars(RunReady)

\* ------------------------------ execute_wave repeated on the same tasks
InitRepeat == InitBatch(MaxRepeatTasks)

NextRepeat ==
    \/ Next
    \/ execute_wave_again

SpecRepeat == InitRepeat /\ [][NextRepeat]_vars

\* ------------------------------------- calculate_waves as a pure function
InitWaves ==
    \E n \in 0..MaxTasks :
        \E df \in [1..n -> DepSets(n, MaxDeps)] :
            InitWith(TaskList(n, [i \in 1..n |-> "backend_dev"], df))

\* One call of calculate_waves(tasks): its waves, or the error it raises.
calculate_waves_call ==
    /\ UNCHANGED <<bus_vars, store_vars, synthesis>>
    /\ pc = "idle"
    /\ LET cw == calculate_waves(tasks)
       IN  /\ pc' = IF cw.raised THEN "raised" ELSE "returned"
           /\ exc' = IF cw.raised THEN CircularDependency ELSE "None"
           /\ waves' = WaveIds(cw.waves)
    /\ UNCHANGED <<tasks, status, result, error, event_handlers, hooks_runner,
                   wave_i, co, all_results, events, calls>>

NextWaves == calculate_waves_call

SpecWaves == InitWaves /\ [][NextWaves]_vars

\* --------------------------------------------- the event bus, two callers
InitBus == InitWith(<<>>)

NextBus ==
    \/ \E t \in EmitTypes, h \in Subscribable : subscribe(t, h)
    \/ \E h \in Subscribable : subscribe_all(h)
    \/ \E c \in Callers, t \in EmitTypes : emit(c, t)
    \/ \E c \in Callers, k \in 1..MaxFanout : safe_handle(c, k)
    \/ \E c \in Callers, k \in 1..MaxFanout : handler_resume(c, k)
    \/ \E c \in Callers : emit_join(c)

SpecBus == InitBus /\ [][NextBus]_vars

\* ------------------------------- the event bus, its queries and its export
\* The caller queries the bus between two of its emit calls.
NextBusQueries ==
    \/ NextBus
    \/ \E c \in Callers, t \in EmitTypes, n \in 0..MaxLimit :
           emit_co[c] = "idle" /\ get_events_by_type(t, n)
    \/ \E c \in Callers, n \in 0..MaxLimit :
           emit_co[c] = "idle" /\ get_events_by_source(SourceOf(c), n)
    \/ \E c \in Callers : emit_co[c] = "idle" /\ export_metrics

SpecBusQueries == InitBus /\ [][NextBusQueries]_vars

\* ------------------------------------------------- the metrics of the bus
InitMetrics == InitWith(<<>>)

NextMetrics ==
    \/ \E t \in RecordTypes : record(t)
    \/ export_metrics

SpecMetrics == InitMetrics /\ [][NextMetrics]_vars

\* ------------------------------------------------------ the context store
InitStore == InitWith(<<>>)

NextStore ==
    \/ \E k \in StoreKeys, v \in Values, r \in Relevances : set(k, v, r)
    \/ \E k \in StoreKeys : get(k)
    \/ export_context
    \/ import_context
    \/ new_ContextManager

SpecStore == InitStore /\ [][NextStore]_vars

\* The store and the queries for the context of a role.  The keys stored:
\* a topic key, a key under it, and a key that only begins like it; the
\* task types asked for are types of some roles and of no type of others.
TopicStoreKeys == {"metrics", "metrics.cpu", "metrics_raw"}

QueryTaskTypes == {"review", "monitor"}

InitRelevant == InitWith(<<>>)

NextRelevant ==
    \/ \E k \in TopicStoreKeys, v \in Values, r \in Relevances : set(k, v, r)
    \/ \E k \in TopicStoreKeys : get(k)
    \/ \E t \in QueryTaskTypes, r \in KnownRoles : get_relevant_context(t, r)
    \/ export_context
    \/ import_context

SpecRelevant == InitRelevant /\ [][NextRelevant]_vars

\* The store with the payloads of import_context that lack a part.
InitImport == InitWith(<<>>)

NextImport ==
    \/ \E k \in StoreKeys, v \in Values, r \in Relevances : set(k, v, r)
    \/ export_context
    \/ payload_without_context
    \/ \E k \in StoreKeys : payload_without_value(k)
    \/ import_context
    \/ new_ContextManager

SpecImport == InitImport /\ [][NextImport]_vars

\* The role handlers of one wave on the store they share.
InitHandlers == InitWith(<<>>)

NextHandlers ==
    \E h \in Handlers :
        \/ \E k \in StoreKeys, v \in Values, r \in Relevances :
               handler_set(h, k, v, r)
        \/ set_trigger(h)
        \/ compress_sort(h)
        \/ compress_evict(h)
        \/ compress_decay(h)
        \/ \E k \in StoreKeys : handler_get(h, k)
        \/ get_touch(h)

SpecHandlers == InitHandlers /\ [][NextHandlers]_vars

\* ================================================================ claims
\* C1: for every acyclic task list whose dependency ids all resolve inside
\* the list, calculate_waves returns waves in which every task appears in
\* exactly one wave, and every dependency of a task lies in a strictly
\* earlier wave than the task.
C1_WavesPartitionAndOrder ==
    (pc # "idle" /\ Schedulable(tasks)) =>
        /\ pc = "returned"
        /\ \A p \in Places(waves) : waves[p[1]][p[2]] \in Ids(tasks)
        /\ \A i \in Ids(tasks) : Occurrences(waves, i) = 1
        /\ \A k \in 1..N : \A d \in tasks[k].dependencies :
              /\ WaveIndex(waves, d) > 0
              /\ WaveIndex(waves, d) < WaveIndex(waves, tasks[k].id)

\* A task with two dependencies that lie in different waves has been placed.
C1_Witness ==
    /\ pc = "returned"
    /\ Len(waves) = 3
    /\ \E k \in 1..N :
          /\ Cardinality(tasks[k].dependencies) = 2
          /\ \E d, e \in tasks[k].dependencies :
                WaveIndex(waves, d) < WaveIndex(waves, e)

\* C2: if the task list contains a dependency cycle (a self-dependency
\* included) or a dependency id that is not in the list, calculate_waves
\* fails with the circular-dependency error and returns no wave list, not
\* even the waves it had built.
C2_CycleOrMissingRaises ==
    (pc # "idle" /\ ~Schedulable(tasks)) =>
        /\ pc = "raised"
        /\ exc = CircularDependency
        /\ waves = <<>>

\* calculate_waves raised on a list that resolves, holds a cycle, and holds
\* a task without dependencies (a first wave had been built).
C2_Witness ==
    /\ pc = "raised"
    /\ Resolved(tasks)
    /\ ~Acyclic(tasks)
    /\ \E k \in 1..N : tasks[k].dependencies = {}

\* C3: execute_wave on a cyclic batch (or one with a missing dependency id)
\* aborts before any task starts: it raises the circular-dependency error,
\* no event is emitted, and every task of the batch keeps status Pending.
C3_CyclicBatchStartsNothing ==
    ~Schedulable(tasks) =>
        /\ pc \in {"idle", "raised"}
        /\ pc = "raised" => exc = CircularDependency
        /\ events = <<>>
        /\ all_results = <<>>
        /\ \A t \in 1..N : status[t] = "pending" /\ co[t] = "none"

\* execute_wave raised on a cyclic batch that holds a task without
\* dependencies, with an observer registered.
C3_Witness ==
    /\ pc = "raised"
    /\ exc = CircularDependency
    /\ ~Acyclic(tasks)
    /\ event_handlers # <<>>
    /\ \E k \in 1..N : tasks[k].dependencies = {}
    /\ \A t \in 1..N : status[t] = "pending"

\* The terminal statuses.
Terminal == {"completed", "failed"}

\* The events of type `type` about task t emitted during the current call.
EventsOf(type, t) ==
    {k \in 1..Len(events) : events[k].type = type /\ events[k].task = t}

\* The error messages that come from the role handler (lines 114-116).
HandlerErrors == {"Unknown role", "handler raised"}

\* C4: wave barrier.  No task of a wave has left Pending while a task of an
\* earlier wave is still Pending or Running: wave N starts only after all
\* tasks of wave N-1 are Completed or Failed.
C4_WaveBarrier ==
    \A a, b \in 1..N :
        (/\ WaveIndex(waves, a) > 0
         /\ WaveIndex(waves, a) < WaveIndex(waves, b)
         /\ status[b] # "pending")
        => status[a] \in Terminal

\* C4, with no observer registered: the barrier holds.
C4_BarrierWithoutObservers ==
    event_handlers = <<>> => C4_WaveBarrier

\* C5: execute_wave is total.  On every acyclic batch the call returns, with
\* exactly one result per input task, each result a task in a terminal
\* state, whichever tasks fail.
C5_ExecuteWaveTotal ==
    (pc \in {"returned", "raised"} /\ Schedulable(tasks)) =>
        /\ pc = "returned"
        /\ Len(all_results) = N
        /\ \A t \in 1..N :
              Cardinality({k \in 1..Len(all_results) : all_results[k].id = t}) = 1
        /\ \A k \in 1..Len(all_results) :
              /\ all_results[k].kind = "task"
              /\ status[all_results[k].id] \in Terminal

\* C5, with no observer registered: execute_wave is total.
C5_TotalWithoutObservers ==
    event_handlers = <<>> => C5_ExecuteWaveTotal

\* C6: within execute_wave on an acyclic batch every task is started,
\* whatever happens to the other tasks: when the call has ended, each task
\* of the batch has had its task.started, the siblings of a failed task and
\* the tasks whose dependency ended Failed included.
C6_EveryTaskStarted ==
    (pc \in {"returned", "raised"} /\ Schedulable(tasks)) =>
        \A t \in 1..N : EventsOf("task.started", t) # {}

\* C6, with no observer registered: every task is started.
C6_StartedWithoutObservers ==
    event_handlers = <<>> => C6_EveryTaskStarted

\* C7: when the role handler of a task fails (it raises, or the role has no
\* handler), execute_task returns normally with the task Failed and
\* task.error holding the error message: no exception leaves execute_task,
\* and no other task's status, result or error changes.
C7_HandlerFailureContained ==
    [][\A t \in 1..N :
          (co[t] = "sleeping" /\ co'[t] # "sleeping" /\ error'[t] \in HandlerErrors)
          => /\ co'[t] = "returned"
             /\ status'[t] = "failed"
             /\ \A u \in (1..N) \ {t} :
                   /\ status'[u] = status[u]
                   /\ result'[u] = result[u]
                   /\ error'[u] = error[u]]_vars

\* C7, with no observer registered: a handler failure is contained.
C7_ContainedWithoutObservers ==
    [][event_handlers = <<>> =>
        \A t \in 1..N :
          (co[t] = "sleeping" /\ co'[t] # "sleeping" /\ error'[t] \in HandlerErrors)
          => /\ co'[t] = "returned"
             /\ status'[t] = "failed"
             /\ \A u \in (1..N) \ {t} :
                   /\ status'[u] = status[u]
                   /\ result'[u] = result[u]
                   /\ error'[u] = error[u]]_vars

\* The moves Pending -> Running -> {Completed, Failed}.
OneWayMoves ==
    {<<"pending", "running">>, <<"running", "completed">>, <<"running", "failed">>}

\* C8: task status is one-way.  Over any sequence of operations (the same
\* task objects handed to execute_wave more than once, and observers that
\* fail while an event is emitted, included) a status only moves Pending to
\* Running and Running to Completed or Failed.
C8_StatusOneWay ==
    [][\A t \in 1..N :
          status'[t] # status[t] => <<status[t], status'[t]>> \in OneWayMoves]_vars

\* C9: in every reachable state a task's result is set only if its status
\* is Completed, and its error is set only if its status is Failed.
C9_ResultAndErrorMatchStatus ==
    \A t \in 1..N :
        /\ result[t] # "None" => status[t] = "completed"
        /\ error[t] # "None" => status[t] = "failed"

\* C9, with no observer registered and one execute_wave call: result and
\* error match the status.
C9_MatchWithoutObservers ==
    event_handlers = <<>> => C9_ResultAndErrorMatchStatus

\* C10: only a cyclic or missing dependency aborts execute_wave.  A failure
\* raised by an observer during a lifecycle event is contained: no
\* exception leaves execute_wave or execute_task because of it, and no
\* task's outcome is changed by it.
C10_OnlyCycleAborts ==
    /\ pc = "raised" => (exc = CircularDependency /\ ~Schedulable(tasks))
    /\ \A t \in 1..N :
          /\ co[t] \notin {"raised", "excepting"}
          /\ error[t] # ObserverError
    /\ \A k \in 1..Len(all_results) : all_results[k].kind = "task"

\* ------------------------------------------------------------ event bus
\* The emit calls made so far with events of type t.
EmitCallsOf(t) == {i \in 1..Len(emit_calls) : emit_calls[i].type = t}

\* C11: after any sequence of emit calls, the count the metrics hold for a
\* type is the number of emit calls made with that type, whether the type
\* has subscribers or not and whether its handlers failed or not; a type
\* never emitted has no count.
C11_CountsMatchEmitCalls ==
    \A t \in EventType : CountOf(counts, t) = Cardinality(EmitCallsOf(t))

\* An event of a type without subscribers has been counted, and a handler
\* of a counted event has failed.
C11_Witness ==
    /\ handlers["task.completed"] = <<>>
    /\ CountOf(counts, "task.completed") >= 1
    /\ CountOf(counts, "task.failed") >= 1
    /\ \E c \in Callers : \E k \in 1..Len(fanout[c]) :
           fanout[c][k].st \in {"failed", "escaped"}

\* A step in which the emit call of caller c ends.
EmitEnds(c) == emit_co[c] = "gathering" /\ emit_co'[c] # "gathering"

\* C12: a handler that fails, whether it is a plain callable or a coroutine
\* and whether its failure is logged or leaves _safe_handle, never makes
\* emit fail, and never keeps a handler of the same event from being run to
\* its end: emit ends only by returning, and only once every coroutine of
\* its fan-out has finished.
C12_HandlerFailureContained ==
    [][\A c \in Callers :
          /\ emit_co'[c] # "raised"
          /\ EmitEnds(c) =>
                 /\ emit_co'[c] = "idle"
                 /\ \A k \in 1..Len(fanout[c]) : fanout[c][k].st \in Finished]_vars

\* An emit is about to return although one of its handlers failed and the
\* failure of another left _safe_handle.
C12_Witness ==
    \E c \in Callers :
        /\ emit_co[c] = "gathering"
        /\ GatherDone(fanout[c])
        /\ \E j, k \in 1..Len(fanout[c]) :
               /\ fanout[c][j].st = "escaped"
               /\ fanout[c][k].st = "failed"

\* C13: emit runs one _safe_handle for each registration of a handler for
\* event.type at the time of the call, in the order of the registrations,
\* and none for a handler registered for other types only; it returns only
\* when each of them has returned or failed, so every handler that has not
\* finished belongs to the last emit of its caller, which has not returned.
C13_FanoutAndJoin ==
    [][\A c \in Callers :
          /\ fanout[c] # <<>> =>
                 /\ emit_co[c] = "gathering"
                 /\ Len(fanout[c]) = Len(called_with[c].registered)
                 /\ \A k \in 1..Len(fanout[c]) :
                        /\ fanout[c][k].handler = called_with[c].registered[k]
                        /\ fanout[c][k].event = Len(emit_calls)
          /\ EmitEnds(c) =>
                 \A k \in 1..Len(fanout[c]) : fanout[c][k].st \in Finished
          /\ emit_co[c] = "idle" /\ emit_co'[c] = "idle"
             /\ Len(emit_calls') > Len(emit_calls) =>
                 called_with'[c].registered = <<>>]_vars

\* The second emit of a caller is about to return: its type has the same
\* callable registered twice, both runs have finished, and a callable
\* registered for the other type only was not run.
C13_Witness ==
    \E c \in Callers :
        /\ emit_co[c] = "gathering"
        /\ Len(emit_calls) >= 2
        /\ GatherDone(fanout[c])
        /\ Len(fanout[c]) = 2
        /\ fanout[c][1].handler = fanout[c][2].handler
        /\ \E t \in EmitTypes : \E k \in 1..Len(handlers[t]) :
               /\ handlers[t][k] \notin DefaultHandlers
               /\ handlers[t][k] # fanout[c][1].handler

\* C14: the log of the bus is the sequence of the events handed to emit, in
\* the order of the calls: emit appends its event, one entry, before any of
\* its handlers runs, and no step of the bus (emit, its handlers, subscribe,
\* subscribe_all, the two queries, export_metrics) removes, moves or
\* replaces an entry.
C14_LogAppendOnly ==
    [][/\ event_log' = emit_calls'
       /\ Len(event_log') \in {Len(event_log), Len(event_log) + 1}
       /\ SubSeq(event_log', 1, Len(event_log)) = event_log
       /\ Len(emit_calls') = Len(emit_calls) => event_log' = event_log
       /\ \A c \in Callers : \A k \in 1..Len(fanout'[c]) :
              /\ fanout'[c][k].event \in 1..Len(event_log')
              /\ event_log'[fanout'[c][k].event].id = fanout'[c][k].event]_vars

\* After three emits and a subscription, a query has returned fewer events
\* than the log holds.
C14_Witness ==
    /\ Len(event_log) >= 3
    /\ SubscribedCallables # {}
    /\ bus_ret.op = "get_events_by_type"
    /\ Len(bus_ret.value) \in 1..(Len(event_log) - 1)

\* --------------------------------------------------------- context store
\* The store right after line 41 of set(key, value, relevance).
Written(key, value, relevance) ==
    Stored(context, key, ContextEntry(value, relevance * ScoreUnit, 0, now))

\* C15: when set returns, the estimated usage is at most threshold * budget,
\* whatever the store held before (a store filled by import_context may be
\* over it) and however large the value written is.
C15_SetLeavesUsageWithinBudget ==
    store_ret.op = "set" => ~OverBudget(context)

\* A set has returned after evicting every entry, the one it wrote included.
C15_Witness ==
    /\ store_ret.op = "set"
    /\ store_ops >= 2
    /\ DOMAIN context = {}

\* C16: a set that leaves the usage at or below threshold * budget removes
\* no key: the keys after it are the keys before it and the key written.
C16_NoEvictionWithinBudget ==
    [][\A k \in StoreKeys, v \in Values, r \in Relevances :
          set(k, v, r) /\ ~OverBudget(Written(k, v, r)) =>
              DOMAIN context' = DOMAIN context \cup {k}]_vars

\* A set has returned with both keys stored, within the budget, after a
\* compression pass that decayed the relevance of its entry.
C16_Witness ==
    /\ store_ret.op = "set"
    /\ DOMAIN context = StoreKeys
    /\ ~OverBudget(context)
    /\ \E k \in StoreKeys :
           /\ context[k].access_count = 0
           /\ context[k].relevance_score = Decayed(DefaultRelevance * ScoreUnit)

\* C17: the relevance_score of an entry that stays in the store does not
\* increase in any step but a set on its key, for each relevance that set
\* takes.
C17_RelevanceNeverIncreases ==
    [][\A k \in DOMAIN context \cap DOMAIN context' :
          \/ \E v \in Values, r \in Relevances : set(k, v, r)
          \/ context'[k].relevance_score <= context[k].relevance_score]_vars

\* The same, for entries whose relevance_score is not negative and for the
\* steps other than import_context.
C17_NonNegativeScoresDecay ==
    [][\A k \in DOMAIN context \cap DOMAIN context' :
          \/ \E v \in Values, r \in Relevances : set(k, v, r)
          \/ context[k].relevance_score < 0
          \/ store_ret'.op \in {"import_context", "KeyError"}
          \/ context'[k].relevance_score <= context[k].relevance_score]_vars

\* C18: importing the export of the store into an empty store gives the
\* same keys in the same order and, for each key, the same value,
\* access_count and relevance_score; last_accessed is the time of the
\* import, not the one exported.
C18_ExportImportRoundTrip ==
    \A tick \in Ticks :
        LET back == Imported(EmptyContext, <<>>, ExportOf(context, key_order),
                             now, tick)
        IN  /\ ~back.raised
            /\ back.key_order = key_order
            /\ DOMAIN back.context = DOMAIN context
            /\ \A k \in DOMAIN context :
                   /\ back.context[k].value = context[k].value
                   /\ back.context[k].access_count = context[k].access_count
                   /\ back.context[k].relevance_score = context[k].relevance_score
                   /\ back.context[k].last_accessed >= now

\* import_context has rebuilt, at a later time, a store whose entry had
\* been read and decayed before it was exported.
C18_Witness ==
    /\ store_ret.op = "import_context"
    /\ exported = ExportOf(context, key_order)
    /\ \E k \in DOMAIN context :
           /\ context[k].access_count >= 1
           /\ context[k].relevance_score # DefaultRelevance * ScoreUnit
           /\ context[k].last_accessed >= 1

\* C19: get on a stored key returns its value, adds one to its
\* access_count and sets its last_accessed to the time of the call, and
\* changes neither its value, its relevance_score, another entry nor the
\* keys; get on a key that is not stored returns the default and changes
\* nothing of the store.
C19_GetFrame ==
    [][\A k \in StoreKeys :
          get(k) =>
              IF k \in DOMAIN context
              THEN /\ store_ret'.value = context[k].value
                   /\ context'[k].access_count = context[k].access_count + 1
                   /\ context'[k].last_accessed = now
                   /\ context'[k].value = context[k].value
                   /\ context'[k].relevance_score = context[k].relevance_score
                   /\ DOMAIN context' = DOMAIN context
                   /\ \A j \in DOMAIN context \ {k} : context'[j] = context[j]
                   /\ key_order' = key_order
                   /\ <<max_tokens', exported'>> = <<max_tokens, exported>>
              ELSE /\ store_ret'.value = DefaultValue
                   /\ <<context', key_order', now'>> = <<context, key_order, now>>
                   /\ <<max_tokens', exported'>> = <<max_tokens, exported>>]_vars

\* A get has returned the value of one of two stored keys, read for the
\* second time.
C19_Witness ==
    /\ store_ret.op = "get"
    /\ store_ret.value \in Values
    /\ DOMAIN context = StoreKeys
    /\ \E k \in StoreKeys : context[k].access_count = 2

\* C20: a set that leaves the usage at or below threshold * budget runs no
\* compression pass: it leaves every other entry as it was and the entry
\* written with the value and the relevance passed and access_count 0.
C20_SetWithinBudgetOnlyWrites ==
    [][\A k \in StoreKeys, v \in Values, r \in Relevances :
          set(k, v, r) /\ ~OverBudget(Written(k, v, r)) =>
              context' = Written(k, v, r)]_vars

\* The same for the value, the access_count and the keys alone, which the
\* decay of line 130 does not touch.
C20_SetWithinBudgetButDecay ==
    [][\A k \in StoreKeys, v \in Values, r \in Relevances :
          set(k, v, r) /\ ~OverBudget(Written(k, v, r)) =>
              /\ DOMAIN context' = DOMAIN Written(k, v, r)
              /\ \A j \in DOMAIN context' :
                     /\ context'[j].value = Written(k, v, r)[j].value
                     /\ context'[j].access_count = Written(k, v, r)[j].access_count
                     /\ context'[j].last_accessed = Written(k, v, r)[j].last_accessed
                     /\ context'[j].relevance_score =
                            Decayed(Written(k, v, r)[j].relevance_score)]_vars

\* C21: between two calls of the store (set, get, export_context,
\* import_context) the estimated usage is never above
\* compression_threshold * max_tokens.
C21_UsageAlwaysWithinBudget == ~OverBudget(context)

\* The same, with the calls of import_context set apart: the usage gets
\* above the threshold in no other call.
C21_OverBudgetOnlyByImport ==
    [][OverBudget(context') =>
          \/ OverBudget(context)
          \/ store_ret'.op \in {"import_context", "KeyError"}]_vars

\* C22: the handlers of one wave are coroutines of one event loop, and a
\* set (with the compression pass it triggers) and a get are atomic for
\* them: while a handler is in a call on the store no other handler takes
\* a step on it, and when the call returns the store is what the whole
\* call makes of the store it began on.
C22_StoreCallsAtomic ==
    [][\A h \in Handlers :
          call[h].step # "idle" =>
              /\ \A g \in Handlers \ {h} : call'[g] = call[g]
              /\ call'[h].step = "idle" =>
                     <<context', key_order'>> =
                         IF call[h].op = "set"
                         THEN LET after == SetEffect(call[h].ctx, call[h].order,
                                                     call[h].key, call[h].value,
                                                     call[h].relevance,
                                                     call[h].clock)
                              IN  <<after.context, after.key_order>>
                         ELSE LET after == GetEffect(call[h].ctx, call[h].order,
                                                     call[h].key, call[h].clock)
                              IN  <<after.context, after.key_order>>]_vars

\* A handler is in a compression pass that has evicted an entry, and the
\* other handler of the wave, which has read the store before, is
\* suspended.
C22_Witness ==
    \E h \in Handlers :
        \E g \in Handlers \ {h} :
            /\ call[h].step = "evicting"
            /\ Len(call[h].entries) <
                   Cardinality(DOMAIN call[h].ctx \cup {call[h].key})
            /\ call[g].op = "get"
            /\ call[g].step = "idle"

\* A payload of import_context that is malformed: it has no "context", or
\* one of its entries has no "value".
Malformed(data) ==
    \/ "context" \notin DOMAIN data
    \/ \E k \in DOMAIN data.context : "value" \notin DOMAIN data.context[k]

\* C23: import_context on a malformed payload fails with a
\* SerializationError: it neither returns nor raises another error.
C23_MalformedImportRaisesSerializationError ==
    [][import_context /\ Malformed(exported) =>
          store_ret'.op = "SerializationError"]_vars

\* What import_context does with such a payload: with no "context" it
\* returns and leaves the store as it was, and with an entry that has no
\* "value" it raises KeyError.
C23_MalformedImportReturnsOrRaisesKeyError ==
    [][import_context /\ Malformed(exported) =>
          IF "context" \notin DOMAIN exported
          THEN /\ store_ret'.op = "import_context"
               /\ <<context', key_order'>> = <<context, key_order>>
          ELSE store_ret'.op = "KeyError"]_vars

\* The events of a type in the log of the bus.
LoggedOfType(type) == {i \in 1..Len(event_log) : event_log[i].type = type}

\* C24: the lifecycle events of execute_wave are published on the event
\* bus: when the call has returned on a batch of N tasks in Len(waves)
\* waves, the log and the counts of the bus hold N task.started and
\* Len(waves) wave.started events.
C24_LifecycleEventsOnBus ==
    pc = "returned" =>
        /\ Cardinality(LoggedOfType("task.started")) = N
        /\ CountOf(counts, "task.started") = N
        /\ Cardinality(LoggedOfType("wave.started")) = Len(waves)
        /\ CountOf(counts, "wave.started") = Len(waves)

\* What the executor does with them: _emit_event builds each event and
\* hands it to the observers of on_event, and the bus gets none of them.
C24_EventsBuiltButNotPublished ==
    (pc = "returned" /\ event_handlers = <<>>) =>
        /\ Cardinality({k \in 1..Len(events) :
                           events[k].type = "task.started"}) = N
        /\ Cardinality({k \in 1..Len(events) :
                           events[k].type = "wave.started"}) = Len(waves)
        /\ event_log = <<>>
        /\ \A type \in EventType : CountOf(counts, type) = 0

\* The failure records of the events recorded so far, in the order of the
\* events.
RECURSIVE FailuresOf(_)
FailuresOf(recorded) ==
    IF recorded = <<>> THEN <<>>
    ELSE record_errors(FailuresOf(SubSeq(recorded, 1, Len(recorded) - 1)),
                       recorded[Len(recorded)])

\* C25: the metrics hold at most 10 failure records, the 10 most recent
\* task.failed and gate.failed events in the order of their emission (all
\* of them while there are fewer), export_metrics reports those, and an
\* event of another type adds no record.
C25_RollingFailureRecords ==
    /\ Len(errors) <= RecentErrors
    /\ errors = LastN(FailuresOf(emit_calls), RecentErrors)
    /\ bus_ret.op = "export_metrics" => bus_ret.value.recent_errors = errors

\* What the metrics do: the list holds a record of every failure recorded
\* and only export_metrics cuts it to the last 10.
C25_ExportCutsTheUnboundedList ==
    /\ errors = FailuresOf(emit_calls)
    /\ bus_ret.op = "export_metrics" =>
           /\ Len(bus_ret.value.recent_errors) <= RecentErrors
           /\ bus_ret.value.recent_errors =
                  IF Len(errors) <= RecentErrors THEN errors
                  ELSE SubSeq(errors, Len(errors) - RecentErrors + 1, Len(errors))

\* The n most recent entries of a sequence, for n >= 0, in its order.
MostRecent(seq, n) ==
    IF n = 0 THEN <<>>
    ELSE SubSeq(seq, IF Len(seq) > n THEN Len(seq) - n + 1 ELSE 1, Len(seq))

\* What a query with the limit n has to return on the events `matching`,
\* and leave alone.
ReturnsMostRecent(matching, n) ==
    /\ Len(bus_ret'.value) <= n
    /\ bus_ret'.value = MostRecent(matching, n)
    /\ event_log' = event_log

\* C26: for each limit n >= 0, get_events_by_type(t, n) and
\* get_events_by_source(s, n) return at most n events, the n most recent of
\* the log that match (all of them when fewer match), in the order of
\* their emission, and leave the log as it is.
C26_QueriesReturnLastN ==
    [][\A n \in 0..MaxLimit :
          /\ \A t \in EmitTypes :
                 get_events_by_type(t, n) =>
                     ReturnsMostRecent(
                         SelectSeq(event_log, LAMBDA e : e.type = t), n)
          /\ \A c \in Callers :
                 get_events_by_source(SourceOf(c), n) =>
                     ReturnsMostRecent(
                         SelectSeq(event_log, LAMBDA e : e.source = SourceOf(c)),
                         n)]_vars

\* The same for the limits n >= 1; with the limit 0 the queries return
\* every event that matches.
C26_PositiveLimitsReturnLastN ==
    [][\A n \in 0..MaxLimit :
          /\ \A t \in EmitTypes :
                 get_events_by_type(t, n) =>
                     IF n >= 1
                     THEN ReturnsMostRecent(
                              SelectSeq(event_log, LAMBDA e : e.type = t), n)
                     ELSE /\ bus_ret'.value =
                                 SelectSeq(event_log, LAMBDA e : e.type = t)
                          /\ event_log' = event_log
          /\ \A c \in Callers :
                 get_events_by_source(SourceOf(c), n) =>
                     IF n >= 1
                     THEN ReturnsMostRecent(
                              SelectSeq(event_log,
                                        LAMBDA e : e.source = SourceOf(c)), n)
                     ELSE /\ bus_ret'.value =
                                 SelectSeq(event_log,
                                           LAMBDA e : e.source = SourceOf(c))
                          /\ event_log' = event_log]_vars

\* The places (role, position) of by_role that hold the result of task t.
PlacesOf(by_role, t) ==
    {p \in {<<role, j>> : role \in DOMAIN by_role, j \in 1..N} :
        /\ p[2] <= Len(by_role[p[1]])
        /\ by_role[p[1]][p[2]].id = t}

\* What the claim has synthesize_results return on `results`, and leave
\* alone.
SynthesisAsClaimed(results) ==
    /\ synthesis'.op = "synthesize_results"
    /\ synthesis'.total_tasks = Len(results)
    /\ synthesis'.completed =
           Cardinality({k \in 1..Len(results) : results[k].kind = "task"
                           /\ status[results[k].id] = "completed"})
    /\ synthesis'.failed =
           Cardinality({k \in 1..Len(results) : results[k].kind = "task"
                           /\ status[results[k].id] = "failed"})
    /\ synthesis'.completed + synthesis'.failed = synthesis'.total_tasks
    /\ \A k \in 1..Len(results) :
           /\ Cardinality(PlacesOf(synthesis'.by_role, results[k].id)) = 1
           /\ \A p \in PlacesOf(synthesis'.by_role, results[k].id) :
                  p[1] = tasks[results[k].id].role
    /\ <<tasks', status', result', error'>> = <<tasks, status, result, error>>
    /\ <<event_handlers', hooks_runner', all_results', events'>> =
           <<event_handlers, hooks_runner, all_results, events>>

\* C27: synthesize_results on the results of execute_wave reports
\* total_tasks = the number of results and completed and failed = the
\* numbers of results in those statuses, which add up to total_tasks, lists
\* each result once, under its role, and changes neither a task nor the
\* orchestrator.
C27_SynthesisCountsAndGroups ==
    [][synthesize_results => SynthesisAsClaimed(all_results)]_vars

\* C27, with no observer registered: every result is a task in a terminal
\* state and the synthesis is as claimed.
C27_SynthesisWithoutObservers ==
    [][synthesize_results /\ event_handlers = <<>> =>
          SynthesisAsClaimed(all_results)]_vars

\* The number of tasks on the longest dependency chain that ends in the
\* task at position i of an acyclic list whose ids are its positions.
RECURSIVE DepthOf(_, _)
DepthOf(ts, i) ==
    IF ts[i].dependencies = {} THEN 1
    ELSE LET below == {DepthOf(ts, d) : d \in ts[i].dependencies}
         IN  1 + CHOOSE m \in below : \A x \in below : x <= m

\* The ids of the tasks at a depth, in the order of the list.
AtDepth(ts, depth) ==
    LET at == SelectSeq(ts, LAMBDA t : DepthOf(ts, t.id) = depth)
    IN  [k \in 1..Len(at) |-> at[k].id]

\* C28: within each wave calculate_waves returns, the tasks are in the
\* order of the task list, and the waves are fixed by the ids, the
\* dependencies and the order of the list alone: wave w holds, in list
\* order, the tasks whose longest dependency chain has w tasks.
C28_SubmissionOrderAndSamePartition ==
    (pc = "returned" /\ Schedulable(tasks)) =>
        /\ \A w \in 1..Len(waves) : \A j, k \in 1..Len(waves[w]) :
               j < k => waves[w][j] < waves[w][k]
        /\ \A w \in 1..Len(waves) : waves[w] = AtDepth(tasks, w)
        /\ \A t \in 1..N : DepthOf(tasks, t) <= Len(waves)

\* A wave holds the first and the third task of the list, and the second
\* task, which depends on one of them, lies in the next wave.
C28_Witness ==
    /\ pc = "returned"
    /\ Len(waves) = 2
    /\ waves[1] = <<1, 3>>
    /\ waves[2] = <<2>>

\* The events of type `type` about wave w emitted during the current call.
WaveEvents(type, w) ==
    {k \in 1..Len(events) : events[k].type = type /\ events[k].wave = w}

\* C29: for each wave w, in wave order, execute_wave emits one
\* wave.started, with the index and the size of the wave, before any
\* task.started of the wave, and one wave.completed once every task of the
\* wave is Completed or Failed and before the wave.started of wave w + 1;
\* when the call has ended each wave has had exactly one of each.
C29_WaveEventsBracketTasks ==
    \A w \in 1..Len(waves) :
        /\ Cardinality(WaveEvents("wave.started", w)) <= 1
        /\ Cardinality(WaveEvents("wave.completed", w)) <= 1
        /\ \A k \in WaveEvents("wave.started", w) :
               /\ events[k].size = Len(waves[w])
               /\ w > 1 => \E j \in WaveEvents("wave.completed", w - 1) : j < k
        /\ \A t \in WaveSet(waves, w) :
               \A k \in EventsOf("task.started", t) :
                   \E j \in WaveEvents("wave.started", w) : j < k
        /\ \A k \in WaveEvents("wave.completed", w) :
               /\ \E j \in WaveEvents("wave.started", w) : j < k
               /\ \A t \in WaveSet(waves, w) :
                      /\ status[t] \in Terminal
                      /\ \E j \in EventsOf("task.started", t) : j < k
        /\ pc \in {"returned", "raised"} =>
               /\ Cardinality(WaveEvents("wave.started", w)) = 1
               /\ Cardinality(WaveEvents("wave.completed", w)) = 1

\* C29, with no observer registered: the wave events are as claimed.
C29_BracketWithoutObservers ==
    event_handlers = <<>> => C29_WaveEventsBracketTasks

\* What the claim has of the events of task t: one task.started once it
\* has left Pending, and then one terminal event, the one of its status.
TaskEventsAsClaimed(t) ==
    /\ Cardinality(EventsOf("task.started", t)) =
           IF status[t] = "pending" THEN 0 ELSE 1
    /\ \A k \in EventsOf("task.completed", t) \cup EventsOf("task.failed", t) :
           \E j \in EventsOf("task.started", t) : j < k
    /\ Cardinality(EventsOf("task.completed", t)) =
           IF status[t] = "completed" THEN 1 ELSE 0
    /\ Cardinality(EventsOf("task.failed", t)) =
           IF status[t] = "failed" THEN 1 ELSE 0

\* C30: each task execute_task runs emits one task.started when it turns
\* Running and then one terminal event, task.completed if it ends
\* Completed and task.failed if it ends Failed, whatever made it fail: the
\* role handler, a role with no handler, or a failed pre-task hook.
C30_OneStartedOneTerminalEvent ==
    \A t \in 1..N : TaskEventsAsClaimed(t)

\* The same with no observer registered, for the tasks that did not fail
\* at line 82, where execute_task returns the failed task with no event.
C30_EventsButForFailedHook ==
    event_handlers = <<>> =>
        \A t \in 1..N : error[t] = "Hook failed" \/ TaskEventsAsClaimed(t)

\* A tech_lead task whose pre-task hook failed is Failed, with no observer
\* registered, and no task.failed has been emitted for it.
C30_FailedHookEmitsNothing ==
    \A t \in 1..N :
        (error[t] = "Hook failed" /\ event_handlers = <<>>) =>
            /\ status[t] = "failed"
            /\ EventsOf("task.failed", t) = {}
            /\ Cardinality(EventsOf("task.started", t)) = 1

\* C31: with no hooks runner set, the tasks of a wave run concurrently:
\* once a task of the wave is Completed or Failed, every task of the wave
\* has emitted its task.started and has left Pending, and the task.started
\* events of a wave come in the order of the task list.
C31_WaveTasksStartBeforeAnyEnds ==
    hooks_runner = "None" =>
        \A w \in 1..Len(waves) : \A t, u \in WaveSet(waves, w) :
            /\ status[t] \in Terminal =>
                   /\ status[u] # "pending"
                   /\ EventsOf("task.started", u) # {}
            /\ PlaceIn(waves, w, t) < PlaceIn(waves, w, u) =>
                   \A k \in EventsOf("task.started", u) :
                       \E j \in EventsOf("task.started", t) : j < k

\* A task of a wave of two has ended while the other one, started before
\* it ended, is still Running in its sleep.
C31_Witness ==
    /\ hooks_runner = "None"
    /\ pc = "gathering"
    /\ Len(waves[wave_i]) = 2
    /\ \E t, u \in WaveSet(waves, wave_i) :
           /\ status[t] \in Terminal
           /\ status[u] = "running"
           /\ co[u] = "sleeping"

\* The ids placed in the waves before wave w.
PlacedBefore(ws, w) == {i \in Ids(tasks) : WaveIndex(ws, i) \in 1..(w - 1)}

\* C32: each wave calculate_waves returns is maximal: wave w holds every
\* task not placed before it whose dependencies all lie in the waves
\* before w.  So no wave is empty, a task of a wave after the first has a
\* dependency in the wave right before its own, and there are as many
\* waves as tasks on the longest dependency chain.
C32_WavesAreMaximal ==
    (pc = "returned" /\ Schedulable(tasks)) =>
        /\ \A w \in 1..Len(waves) :
               /\ waves[w] # <<>>
               /\ \A k \in 1..N :
                      (/\ tasks[k].id \notin PlacedBefore(waves, w)
                       /\ tasks[k].dependencies \subseteq PlacedBefore(waves, w))
                      => WaveIndex(waves, tasks[k].id) = w
        /\ \A k \in 1..N :
               WaveIndex(waves, tasks[k].id) > 1 =>
                   \E d \in tasks[k].dependencies :
                       WaveIndex(waves, d) = WaveIndex(waves, tasks[k].id) - 1
        /\ \A k \in 1..N : DepthOf(tasks, k) <= Len(waves)
        /\ N > 0 => \E k \in 1..N : DepthOf(tasks, k) = Len(waves)
        /\ N = 0 => waves = <<>>

\* Two tasks that depend on the first task of the list, and on nothing
\* else, share the second and last wave.
C32_Witness ==
    /\ pc = "returned"
    /\ Len(waves) = 2
    /\ waves[1] = <<1>>
    /\ Len(waves[2]) = 2

\* C33: the compression pass evicts in rank order and no further than it
\* has to: a pass of the loop evicts an entry only while the usage is
\* above threshold * budget, and only an entry such that no entry left has
\* a smaller relevance_score * access_count, or the same product and an
\* older last_accessed; the loop ends once the usage is at or below the
\* threshold (or nothing is left); and then the relevance_score of each
\* entry left is multiplied by the decay, once, and nothing else changes.
C33_EvictionInRankOrder ==
    [][\A h \in Handlers :
          /\ compress_evict(h) =>
                 IF DOMAIN context' # DOMAIN context
                 THEN /\ OverBudget(context)
                      /\ Cardinality(DOMAIN context \ DOMAIN context') = 1
                      /\ \A e \in DOMAIN context \ DOMAIN context' :
                             \A f \in DOMAIN context' :
                                 /\ ~KeyLess(context[f], context[e])
                                 /\ context'[f] = context[f]
                 ELSE /\ ~OverBudget(context) \/ DOMAIN context = {}
                      /\ call'[h].step = "decaying"
          /\ compress_decay(h) =>
                 /\ ~OverBudget(context) \/ DOMAIN context = {}
                 /\ DOMAIN context' = DOMAIN context
                 /\ call'[h].step = "idle"
                 /\ \A k \in DOMAIN context :
                        context'[k] =
                            [context[k] EXCEPT
                                !.relevance_score =
                                    (context[k].relevance_score * DecayNum)
                                        \div DecayDen]]_vars

\* A pass is about to decay the entry its set wrote, after it has evicted
\* an older entry that had been read and whose product is negative.
C33_Witness ==
    \E h \in Handlers :
        /\ call[h].step = "decaying"
        /\ DOMAIN context = {call[h].key}
        /\ \E j \in DOMAIN call[h].ctx \ {call[h].key} :
               /\ call[h].ctx[j].access_count >= 1
               /\ Product(call[h].ctx[j]) < 0

\* C34: an entry leaves the store only in the compression pass of a set
\* whose store is over the threshold; get takes no key out;
\* get_relevant_context and export_context leave every entry and the keys
\* as they are; and the value of an entry that stays changes only in a set
\* on its key or in an import_context whose payload holds its key.
C34_EntriesLeaveOnlyByCompression ==
    [][/\ DOMAIN context \ DOMAIN context' # {} =>
              \E k \in TopicStoreKeys, v \in Values, r \in Relevances :
                  set(k, v, r) /\ OverBudget(Written(k, v, r))
       /\ \A k \in TopicStoreKeys :
              get(k) => DOMAIN context' = DOMAIN context
       /\ \A t \in QueryTaskTypes, r \in KnownRoles :
              get_relevant_context(t, r) =>
                  <<context', key_order'>> = <<context, key_order>>
       /\ export_context => <<context', key_order'>> = <<context, key_order>>
       /\ \A k \in DOMAIN context \cap DOMAIN context' :
              context'[k].value # context[k].value =>
                  \/ \E v \in Values, r \in Relevances : set(k, v, r)
                  \/ /\ import_context
                     /\ k \in DOMAIN PayloadContext(exported).context]_vars

\* get_relevant_context has returned, from a store of two entries or more
\* one of which had been read by get, the entries of a role.
C34_Witness ==
    /\ store_ret.op = "get_relevant_context"
    /\ DOMAIN store_ret.value # {}
    /\ Cardinality(DOMAIN context) >= 2
    /\ \E k \in DOMAIN context : context[k].access_count >= 1

\* The stored keys the claim has get_relevant_context(task_type, role)
\* return: the topic keys of the table entry and the keys that begin with
\* a topic key and a dot.
ClaimedKeys(task_type, role) ==
    {k \in DOMAIN context :
        \E topic \in TaskKeys(task_type, role) :
            k = topic \/ StartsWith(k, topic \o ".")}

\* C35: get_relevant_context(task_type, role) returns the entries of
\* exactly the stored keys that are a topic key of the table entry for
\* (role, task_type) or begin with one followed by a dot; the table has
\* entries for each of the six roles; and a pair with no table entry
\* gives the empty result.
C35_RelevantKeysOfEachRole ==
    [][\A t \in QueryTaskTypes, r \in KnownRoles :
          get_relevant_context(t, r) =>
              /\ DOMAIN store_ret'.value = ClaimedKeys(t, r)
              /\ r \in DOMAIN RelevanceMap
              /\ TaskKeys(t, r) = {} => DOMAIN store_ret'.value = {}]_vars

\* The same, with tech_lead set apart: the table has entries for the
\* other five roles and none for tech_lead, whose result is always empty.
C35_RelevantKeysButTechLead ==
    [][\A t \in QueryTaskTypes, r \in KnownRoles :
          get_relevant_context(t, r) =>
              /\ DOMAIN store_ret'.value = ClaimedKeys(t, r)
              /\ r \in DOMAIN RelevanceMap <=> r # "tech_lead"
              /\ TaskKeys(t, r) = {} => DOMAIN store_ret'.value = {}
              /\ r = "tech_lead" => DOMAIN store_ret'.value = {}]_vars

\* C36: termination.  Once execute_wave has its waves (calculate_waves
\* returned: the batch has no cycle), it returns in the end unless a
\* handler never returns; and from the moment a handler hangs, its wave
\* stays the current one (it never completes and no later wave starts).
C36_ReturnsUnlessAHandlerHangs ==
    /\ [](pc = "gathering" => <>(pc = "returned" \/ Blocked))
    /\ \A w \in 1..MaxHookTasks :
          []((Blocked /\ wave_i = w) => [](pc = "gathering" /\ wave_i = w))

\* The same with "ends" for "returns": execute_wave returns or raises.
C36_EndsUnlessAHandlerHangs ==
    /\ [](pc = "gathering" => <>(pc \in {"returned", "raised"} \/ Blocked))
    /\ \A w \in 1..MaxHookTasks :
          []((Blocked /\ wave_i = w) => [](pc = "gathering" /\ wave_i = w))

\* With no observer registered, execute_wave returns unless a handler
\* hangs.
C36_ReturnsWithoutObservers ==
    [](pc = "gathering" /\ event_handlers = <<>>
          => <>(pc = "returned" \/ Blocked))

\* A handler hangs in the first of two waves.
C36_HungInFirstWave ==
    Blocked /\ wave_i = 1 /\ Len(waves) = 2

\* import_context raised.
ImportFails == import_context /\ store_ret'.op # "import_context"

\* The place in the payload of its first entry without "value".
FirstMalformed(data) ==
    CHOOSE i \in 1..Len(data.key_order) :
        /\ "value" \notin DOMAIN data.context[data.key_order[i]]
        /\ \A j \in 1..(i - 1) : "value" \in DOMAIN data.context[data.key_order[j]]

\* C37: a failed import_context is all-or-nothing: the store is left
\* exactly as it was before the call, no entry of the payload imported.
C37_FailedImportLeavesStore ==
    [][ImportFails => <<context', key_order'>> = <<context, key_order>>]_vars

\* What a failed import_context leaves: the entries of the payload before
\* its first malformed one are in the store with the payload's values, and
\* every other key is as it was before the call.
C37_FailedImportKeepsEarlierEntries ==
    [][ImportFails =>
          LET first == FirstMalformed(exported)
              before == {exported.key_order[j] : j \in 1..(first - 1)}
          IN  /\ DOMAIN context' = DOMAIN context \cup before
              /\ \A k \in before :
                    context'[k].value = exported.context[k].value
              /\ \A k \in DOMAIN context \ before : context'[k] = context[k]]_vars

\* After a failed import_context the store holds a key of the payload,
\* whose payload has an entry without "value".
C37_PartialImport ==
    /\ store_ret.op = "KeyError"
    /\ "context" \in DOMAIN exported
    /\ \E k \in DOMAIN context :
          /\ k \in DOMAIN exported.context
          /\ "value" \in DOMAIN exported.context[k]
          /\ \E m \in DOMAIN exported.context :
                "value" \notin DOMAIN exported.context[m]

\* The entries a set(k, ...) evicted, of the store `ctx` it had written to.
EvictedBy(ctx) == DOMAIN ctx \ DOMAIN context'

\* C38, as stated: when the compression pass of set(k, ...) evicts the
\* entry it has just written, it has evicted every entry the store held
\* before the set whose product is 0; and it evicts no entry whose product
\* is positive unless it has evicted the one just written.
C38_WrittenEntryAfterEveryOlderUnread ==
    [][\A k \in StoreKeys, v \in Values, r \in Relevances :
          set(k, v, r) =>
              LET ctx == Written(k, v, r)
              IN  /\ k \in EvictedBy(ctx) =>
                        \A j \in DOMAIN ctx \ {k} :
                            Product(ctx[j]) = 0 => j \in EvictedBy(ctx)
                  /\ \A j \in EvictedBy(ctx) :
                        Product(ctx[j]) > 0 => k \in EvictedBy(ctx)]_vars

\* C38, amended: the same, for the entries whose last_accessed is earlier
\* than that of the entry just written.  (With equal timestamps the sort
\* leaves the entries in dict order and a new key, last of the dict, is
\* evicted first.)
C38_WrittenEntryAfterEveryEarlierUnread ==
    [][\A k \in StoreKeys, v \in Values, r \in Relevances :
          set(k, v, r) =>
              LET ctx == Written(k, v, r)
              IN  /\ k \in EvictedBy(ctx) =>
                        \A j \in DOMAIN ctx \ {k} :
                            Product(ctx[j]) = 0
                              /\ ctx[j].last_accessed < ctx[k].last_accessed
                                => j \in EvictedBy(ctx)
                  /\ \A j \in EvictedBy(ctx) :
                        Product(ctx[j]) > 0 => k \in EvictedBy(ctx)]_vars

\* A set has returned without the key it wrote: the store holds one entry,
\* which has been read and has a positive product, so the set wrote another
\* key, and a get of that key now returns the default.
C38_Witness ==
    /\ store_ret.op = "set"
    /\ \E j \in StoreKeys :
          /\ DOMAIN context = {j}
          /\ Product(context[j]) > 0

====
